---------------------------- MODULE Spec2Model ----------------------------
(***************************************************************************)
(* Model of the financial-statement core of src/main.py: the Amount Parser *)
(* (parse_dart_int), the Account Matcher (pick_is_core_from_rows,          *)
(* find_amount), the Metric Aggregator (parse_metrics), the Quarter        *)
(* Decomposer (get_quarterly_metrics) and the Reporting-Basis Detector     *)
(* (detect_fs_sj_by_quarter_logic).                                        *)
(* Around the core: publish_post of src/wp_publisher.py, and               *)
(* call_openai_json and run_all_pending of src/main.py.                    *)
(*                                                                         *)
(* Conventions.                                                            *)
(*  - A Python str is a sequence of characters; a character is a one-token *)
(*    string.  Non-ASCII characters are written by name: "TRI" is the      *)
(*    glyph U+25B3, "EMDASH" U+2014, "ENDASH" U+2013, and a Hangul         *)
(*    syllable is written by its romanisation ("mae" "chul" "aek").        *)
(*  - A nullable value is a sequence of length <= 1: None is <<>> and the  *)
(*    value v is <<v>>.                                                    *)
(*  - dict.get of an absent key and a None/'' field are both the empty     *)
(*    sequence: every reader in the code applies (x or '') first.          *)
(***************************************************************************)
EXTENDS Integers, Sequences, FiniteSets, TLC

VARIABLES
    amt_pc,       \* Amount Parser harness: "idle", "ready", "done"
    amt_n,        \* the integer that was rendered (None for a raw input)
    amt_value,    \* the raw string handed to parse_dart_int
    amt_result,   \* what parse_dart_int returned (None or <<n>>)
    mt_pc,        \* parse_metrics harness: "idle", "ready", "done"
    mt_rows,      \* the row list (fin_list) handed to parse_metrics
    mt_result,    \* the record parse_metrics returned (<<>> before the call)
    q_pc,         \* where get_quarterly_metrics is
    corp_code,    \* its arguments
    year,
    probes,       \* the requests of the basis detector, with their answers
    basis,        \* <<fs_div, sj_div>> once detected
    snap,         \* the report fetch_report_metrics is fetching (1..4)
    part,         \* its request: 1 income statement, 2 BS, 3 CF
    rows,         \* the rows it has collected
    fin,          \* the cumulative record of each report
    fetched,      \* the requests fetch_report_metrics has issued
    failures,     \* the requests that failed
    prev_year_eq, \* the prior year's closing equity
    quarters,     \* the result: <<q1, q2, q3, q4>> (<<>> before)
    pub_pc,       \* where publish_post is
    pub_company,  \* company_data['company_name']
    pub_site,     \* the posts the site lists for each status of the search
    pub_tags,     \* the tags get_or_create_tags has still to prepare
    pub_existing, \* existing_id, as find_existing_post returned it
    pub_lookups,  \* the answers find_existing_post got ("ok" or "error")
    pub_writes,   \* the write requests publish_post has issued
    pub_result,   \* the link it returned, or the error it raised
    ai_pc,        \* where call_openai_json is
    ai_requests,  \* the completion requests it has made: <<model, format>>
    ai_response,  \* the answer to the last of them
    last_err,     \* the error of the last attempt that failed
    ai_result,    \* the object it returned, or the error it raised
    run_pc,       \* where run_all_pending is
    target_id,    \* TARGET_SPREADSHEET_ID ("" when unset)
    force_reanalyze, \* FORCE_REANALYZE
    files,        \* the spreadsheets of the scan, deduplicated
    handled,      \* what was done with each spreadsheet, in order
    summary       \* the summary run_all_pending builds and returns

amt_vars == <<amt_pc, amt_n, amt_value, amt_result>>

mt_vars == <<mt_pc, mt_rows, mt_result>>

q_vars == <<q_pc, corp_code, year, probes, basis, snap, part, rows, fin,
            fetched, failures, prev_year_eq, quarters>>

pub_vars == <<pub_pc, pub_company, pub_site, pub_tags, pub_existing,
              pub_lookups, pub_writes, pub_result>>

\* the variables of the glue around the core
ai_vars == <<ai_pc, ai_requests, ai_response, last_err, ai_result>>

run_vars == <<run_pc, target_id, force_reanalyze, files, handled, summary>>

glue_vars == <<pub_vars, ai_vars, run_vars>>

vars == <<amt_vars, mt_vars, q_vars, glue_vars>>

-----------------------------------------------------------------------------
(* Nullable values *)

None == <<>>

Some(v) == <<v>>

IsNone(x) == x = <<>>

NotNone(x) == x # <<>>

Val(x) == x[1]

-----------------------------------------------------------------------------
(* Bounds of the model *)

\* longest raw string handed to the Amount Parser
MaxTextLen == 4

\* largest multiplier of a unit in a rendered amount
MaxAmount == 1100

\* units of rendered amounts: n = k * u, |k| <= MaxAmount
AmountUnits == {1, 1001, 1000000}

-----------------------------------------------------------------------------
(* Python str helpers, as used by parse_dart_int *)

Digits == <<"0", "1", "2", "3", "4", "5", "6", "7", "8", "9">>

DigitChars == {Digits[i] : i \in 1..10}

DigitValue(c) == (CHOOSE i \in 1..10 : Digits[i] = c) - 1

Whitespace == {" "}

RECURSIVE LStrip(_)
LStrip(s) ==
    IF s # <<>> /\ Head(s) \in Whitespace THEN LStrip(Tail(s)) ELSE s

RECURSIVE RStrip(_)
RStrip(s) ==
    IF s # <<>> /\ s[Len(s)] \in Whitespace
    THEN RStrip(SubSeq(s, 1, Len(s) - 1))
    ELSE s

\* str.strip()
Strip(s) == RStrip(LStrip(s))

\* str.replace(c, '')
RECURSIVE RemoveChar(_, _)
RemoveChar(s, c) ==
    IF s = <<>> THEN <<>>
    ELSE IF Head(s) = c THEN RemoveChar(Tail(s), c)
    ELSE <<Head(s)>> \o RemoveChar(Tail(s), c)

StartsWith(s, c) == s # <<>> /\ Head(s) = c

EndsWith(s, c) == s # <<>> /\ s[Len(s)] = c

\* value of a non-empty run of decimal digits (0 for the empty run)
RECURSIVE DigitsValue(_)
DigitsValue(s) ==
    IF s = <<>> THEN 0
    ELSE 10 * DigitsValue(SubSeq(s, 1, Len(s) - 1)) + DigitValue(s[Len(s)])

AllDigits(s) == \A i \in 1..Len(s) : s[i] \in DigitChars

\* index of the first "." of s, or Len(s) + 1
DotIndex(s) ==
    IF \E i \in 1..Len(s) : s[i] = "."
    THEN CHOOSE i \in 1..Len(s) : s[i] = "." /\ \A j \in 1..(i - 1) : s[j] # "."
    ELSE Len(s) + 1

(***************************************************************************)
(* int(float(text)) over the characters of the model (digits, sign, ".",   *)
(* blank, the word "inf", and characters float() rejects).  float() strips *)
(* blanks, takes an optional sign and a decimal literal with at least one  *)
(* digit, or the infinity; int() truncates toward zero, which leaves the   *)
(* signed integer part, and raises OverflowError on the infinity.  A text  *)
(* float() rejects raises ValueError.  Magnitudes of the model stay below  *)
(* 2^53, where float() is exact.                                           *)
(***************************************************************************)
Raise(kind) == <<"raise", kind>>

IsRaise(x) == Len(x) = 2

IntOfFloat(text) ==
    LET t    == Strip(text)
        sgn  == IF StartsWith(t, "-") THEN -1 ELSE 1
        body == IF StartsWith(t, "-") \/ StartsWith(t, "+") THEN Tail(t) ELSE t
        dot  == DotIndex(body)
        ip   == SubSeq(body, 1, dot - 1)
        fp   == SubSeq(body, dot + 1, Len(body))
    IN  IF body = <<"inf">> THEN Raise("OverflowError")
        ELSE IF /\ AllDigits(ip)
                /\ AllDigits(fp)
                /\ Len(ip) + Len(fp) >= 1
        THEN Some(sgn * DigitsValue(ip))
        ELSE Raise("ValueError")

\* except Exception: return None
Catch(r) == IF IsRaise(r) THEN None ELSE r

\* lines 552-556 without the sign: the try block, None on any exception
PyIntOfFloat(text) == Catch(IntOfFloat(text))

Placeholders ==
    { <<"-">>, <<"-", "-">>, <<"N", "/", "A">>, <<"EMDASH">>, <<"ENDASH">> }

\* a wrong sign rule: the parenthesis convention does not set neg
parse_dart_int_NoParenSign(value) ==
    LET text0 == Strip(value)
        t1 == IF StartsWith(text0, "TRI") THEN Tail(text0) ELSE text0
        t2 == RemoveChar(t1, ",")
        wrapped == StartsWith(t2, "(") /\ EndsWith(t2, ")")
        t3 == IF wrapped THEN SubSeq(t2, 2, Len(t2) - 1) ELSE t2
        n  == PyIntOfFloat(t3)
    IN  IF text0 = <<>> \/ text0 \in Placeholders THEN None
        ELSE IF IsNone(n) THEN None
        ELSE IF StartsWith(text0, "TRI") THEN Some(-Val(n)) ELSE n

\* a wrong separator rule: thousands separators are not removed
parse_dart_int_KeepCommas(value) ==
    LET text0 == Strip(value)
        neg1 == StartsWith(text0, "TRI")
        t1 == IF neg1 THEN Tail(text0) ELSE text0
        wrapped == StartsWith(t1, "(") /\ EndsWith(t1, ")")
        t3 == IF wrapped THEN SubSeq(t1, 2, Len(t1) - 1) ELSE t1
        n  == PyIntOfFloat(t3)
    IN  IF text0 = <<>> \/ text0 \in Placeholders THEN None
        ELSE IF IsNone(n) THEN None
        ELSE IF neg1 \/ wrapped THEN Some(-Val(n)) ELSE n

\* no try block: the exception of int(float(text)) leaves the function
parse_dart_int_NoCatch(value) ==
    LET text0 == Strip(value)
        neg1 == StartsWith(text0, "TRI")
        t1 == IF neg1 THEN Tail(text0) ELSE text0
        t2 == RemoveChar(t1, ",")
        wrapped == StartsWith(t2, "(") /\ EndsWith(t2, ")")
        t3 == IF wrapped THEN SubSeq(t2, 2, Len(t2) - 1) ELSE t2
        neg == neg1 \/ wrapped
        n  == IntOfFloat(t3)
    IN  IF text0 = <<>> \/ text0 \in Placeholders THEN None
        ELSE IF IsRaise(n) THEN n
        ELSE IF neg THEN Some(-Val(n)) ELSE n

parse_dart_int(value) ==
    LET text0 == Strip(value)
        neg1 == StartsWith(text0, "TRI")
        t1 == IF neg1 THEN Tail(text0) ELSE text0
        t2 == RemoveChar(t1, ",")
        wrapped == StartsWith(t2, "(") /\ EndsWith(t2, ")")
        t3 == IF wrapped THEN SubSeq(t2, 2, Len(t2) - 1) ELSE t2
        neg == neg1 \/ wrapped
        n  == PyIntOfFloat(t3)
    IN  IF text0 = <<>> \/ text0 \in Placeholders THEN None
        ELSE IF IsNone(n) THEN None
        ELSE IF neg THEN Some(-Val(n)) ELSE n

-----------------------------------------------------------------------------
(* Renderings of an integer in a filing (spec section 4.1 / 8) *)

RECURSIVE ToDigits(_)
ToDigits(n) ==
    IF n < 10 THEN <<Digits[n + 1]>>
    ELSE ToDigits(n \div 10) \o <<Digits[(n % 10) + 1]>>

\* thousands separators, counted from the right
RECURSIVE GroupThousands(_)
GroupThousands(ds) ==
    IF Len(ds) <= 3 THEN ds
    ELSE GroupThousands(SubSeq(ds, 1, Len(ds) - 3))
            \o <<",">> \o SubSeq(ds, Len(ds) - 2, Len(ds))

SignStyles == {"minus", "paren", "tri"}

Abs(n) == IF n < 0 THEN -n ELSE n

FormatAmount(n, sign, grouped) ==
    LET ds  == ToDigits(Abs(n))
        mag == IF grouped THEN GroupThousands(ds) ELSE ds
    IN  IF n >= 0 THEN mag
        ELSE IF sign = "minus" THEN <<"-">> \o mag
        ELSE IF sign = "paren" THEN <<"(">> \o mag \o <<")">>
        ELSE <<"TRI">> \o mag

RenderedAmounts == { k * u : k \in (-MaxAmount)..MaxAmount, u \in AmountUnits }

-----------------------------------------------------------------------------
(* Raw inputs of the Amount Parser *)

RawAlphabet == {"0", "1", "7", ",", "(", ")", "-", ".", " ", "TRI", "inf"}

RawTexts ==
    UNION { [1..k -> RawAlphabet] : k \in 0..MaxTextLen } \cup Placeholders

-----------------------------------------------------------------------------
(* Amount Parser harness *)

AmtInit ==
    /\ amt_pc = "idle"
    /\ amt_n = None
    /\ amt_value = <<>>
    /\ amt_result = None

\* a filing renders the integer n
RenderAmount ==
    /\ amt_pc = "idle"
    /\ \E n \in RenderedAmounts, sign \in SignStyles, grouped \in BOOLEAN :
          /\ amt_n' = Some(n)
          /\ amt_value' = FormatAmount(n, sign, grouped)
    /\ amt_pc' = "ready"
    /\ UNCHANGED <<amt_result, mt_vars, q_vars, glue_vars>>

\* an arbitrary field value reaches the parser
RawAmount ==
    /\ amt_pc = "idle"
    /\ \E t \in RawTexts : amt_value' = t
    /\ amt_n' = None
    /\ amt_pc' = "ready"
    /\ UNCHANGED <<amt_result, mt_vars, q_vars, glue_vars>>

ParseAmount ==
    /\ amt_pc = "ready"
    /\ amt_result' = parse_dart_int(amt_value)
    /\ amt_pc' = "done"
    /\ UNCHANGED <<amt_n, amt_value, mt_vars, q_vars, glue_vars>>

AmtNext == RenderAmount \/ RawAmount \/ ParseAmount

\* the parse_metrics harness at rest
MtIdle ==
    /\ mt_pc = "idle"
    /\ mt_rows = <<>>
    /\ mt_result = <<>>

\* get_quarterly_metrics has not been called
QIdle ==
    /\ q_pc = "idle"
    /\ corp_code = ""
    /\ year = 0
    /\ probes = <<>>
    /\ basis = <<>>
    /\ snap = 0
    /\ part = 0
    /\ rows = <<>>
    /\ fin = <<>>
    /\ fetched = {}
    /\ failures = 0
    /\ prev_year_eq = None
    /\ quarters = <<>>

\* publish_post has not been called
PubIdle ==
    /\ pub_pc = "idle"
    /\ pub_company = <<>>
    /\ pub_site = <<>>
    /\ pub_tags = 0
    /\ pub_existing = None
    /\ pub_lookups = <<>>
    /\ pub_writes = <<>>
    /\ pub_result = None

\* call_openai_json has not been called
AiIdle ==
    /\ ai_pc = "idle"
    /\ ai_requests = <<>>
    /\ ai_response = <<>>
    /\ last_err = None
    /\ ai_result = None

\* run_all_pending has not been called
RunIdle ==
    /\ run_pc = "idle"
    /\ target_id = ""
    /\ force_reanalyze = FALSE
    /\ files = <<>>
    /\ handled = <<>>
    /\ summary = [found |-> 0, processed |-> 0, skipped |-> 0, failed |-> 0]

\* nothing has been called yet
Init == AmtInit /\ MtIdle /\ QIdle /\ PubIdle /\ AiIdle /\ RunIdle

SpecAmount == Init /\ [][AmtNext]_vars

-----------------------------------------------------------------------------
(* Filing rows (one item of the list get_fin_data returns).                *)
(* sj_div, account_id, account_nm, thstrm_amount, thstrm_add_amount are    *)
(* the keys the code reads; a missing key is the empty string.             *)

Row(sj, id, nm, amount, add_amount) ==
    [sj_div |-> sj, account_id |-> id, account_nm |-> nm,
     thstrm_amount |-> amount, thstrm_add_amount |-> add_amount]

\* str.upper() / str.lower() on the letters of the model: an identifier or a
\* statement code is a sequence of chunks, each chunk a run of letters
CaseTable ==
    << <<"Full", "full", "FULL">>,
       <<"Revenue", "revenue", "REVENUE">>,
       <<"CostOfSales", "costofsales", "COSTOFSALES">>,
       <<"TotalSellingGeneralAdministrativeExpenses",
         "totalsellinggeneraladministrativeexpenses",
         "TOTALSELLINGGENERALADMINISTRATIVEEXPENSES">>,
       <<"OperatingIncomeLoss", "operatingincomeloss", "OPERATINGINCOMELOSS">>,
       <<"ProfitLoss", "profitloss", "PROFITLOSS">>,
       <<"Equity", "equity", "EQUITY">>,
       <<"CashFlowsFromUsedInOperatingActivities",
         "cashflowsfromusedinoperatingactivities",
         "CASHFLOWSFROMUSEDINOPERATINGACTIVITIES">>,
       <<"ifrs", "ifrs", "IFRS">>,
       <<"dart", "dart", "DART">>,
       <<"is", "is", "IS">>,
       <<"cis", "cis", "CIS">>,
       <<"bs", "bs", "BS">>,
       <<"cf", "cf", "CF">> >>

\* str.lower() of one chunk
LowerChar(c) ==
    IF \E i \in 1..Len(CaseTable) : c \in {CaseTable[i][1], CaseTable[i][3]}
    THEN CaseTable[CHOOSE i \in 1..Len(CaseTable) :
                      c \in {CaseTable[i][1], CaseTable[i][3]}][2]
    ELSE c

\* str.upper() of one chunk
UpperChar(c) ==
    IF \E i \in 1..Len(CaseTable) : c \in {CaseTable[i][1], CaseTable[i][2]}
    THEN CaseTable[CHOOSE i \in 1..Len(CaseTable) :
                      c \in {CaseTable[i][1], CaseTable[i][2]}][3]
    ELSE c

Lower(s) == [i \in 1..Len(s) |-> LowerChar(s[i])]

\* statement codes are single chunks: (item.get('sj_div') or '').upper()
UpperSj(sj) == UpperChar(sj)

RECURSIVE RemoveChars(_, _)
RemoveChars(s, cs) ==
    IF s = <<>> THEN <<>>
    ELSE IF Head(s) \in cs THEN RemoveChars(Tail(s), cs)
    ELSE <<Head(s)>> \o RemoveChars(Tail(s), cs)

\* k in s (Python substring test)
Contains(s, k) ==
    \E i \in 0..(Len(s) - Len(k)) : SubSeq(s, i + 1, i + Len(k)) = k

normalize_account_id(value) == RemoveChars(Lower(value), {"-", "_", " "})

\* characters re.sub(r'[^0-9A-Za-z가-힣]', '', ...) removes
NonAlnumChars == {" ", "(", ")", ".", ",", "-", "_", "TRI", "ROMAN1"}

normalize_account_name(value) == Strip(Lower(RemoveChars(value, NonAlnumChars)))

\* a if it is a value, else b
OrElse(a, b) == IF NotNone(a) THEN a ELSE b

\* a wrong precedence: the three-month amount before the cumulative one
pick_numeric_amount_PeriodFirst(item) ==
    OrElse(parse_dart_int(item.thstrm_amount), parse_dart_int(item.thstrm_add_amount))

\* lines 559-564: the cumulative amount if it parses, else the period amount
pick_numeric_amount(item) ==
    OrElse(parse_dart_int(item.thstrm_add_amount), parse_dart_int(item.thstrm_amount))

-----------------------------------------------------------------------------
(* Identifier allow-lists and name keywords of the Account Matcher *)

revenue_ids ==
    { <<"ifrs", "full", "revenue">>, <<"ifrs", "revenue">>,
      <<"ifrs", "full", "revenue", "fromcontractswithcustomers">> }

cogs_ids == { <<"ifrs", "full", "costofsales">>, <<"ifrs", "costofsales">> }

sga_ids ==
    { <<"dart", "totalsellinggeneraladministrativeexpenses">>,
      <<"ifrs", "full", "sellinggeneralandadministrativeexpense">> }

op_ids ==
    { <<"dart", "operatingincomeloss">>,
      <<"ifrs", "full", "operating", "profitloss">>,
      <<"ifrs", "operating", "profitloss">>,
      <<"ifrs", "full", "profitloss", "fromoperatingactivities">> }

ni_ids ==
    { <<"ifrs", "full", "profitloss">>, <<"ifrs", "profitloss">>,
      <<"ifrs", "full", "profitloss", "attributabletoownersofparent">> }

\* Hangul keywords, one romanised syllable per character
KwMaechulaek == <<"mae", "chul", "aek">>

KwSuikMaechulaek == <<"su", "ik", "mae", "chul", "aek">>

KwSuik == <<"su", "ik">>

KwYeongeopSuik == <<"yeong", "eop", "su", "ik">>

KwGogaekgwauiGyeyak == <<"go", "gaek", "gwa", "ui", "gye", "yak">>

KwMaechulWonga == <<"mae", "chul", "won", "ga">>

KwWonga == <<"won", "ga">>

KwPanmae == <<"pan", "mae">>

KwGwanri == <<"gwan", "ri">>

KwPanmaebi == <<"pan", "mae", "bi">>

KwGwanribi == <<"gwan", "ri", "bi">>

SgaNameKeywords ==
    { <<"pan", "mae", "bi", "wa", "gwan", "ri", "bi">>,
      <<"pan", "mae", "bi", "mit", "gwan", "ri", "bi">>,
      <<"pan", "gwan", "bi">> }

OpNameKeywords ==
    { <<"yeong", "eop", "i", "ik">>, <<"yeong", "eop", "son", "ik">>,
      <<"yeong", "eop", "son", "sil">> }

NiNameKeywords ==
    { <<"dang", "gi", "sun", "i", "ik">>, <<"dang", "gi", "sun", "son", "ik">>,
      <<"yeon", "gyeol", "dang", "gi", "sun", "i", "ik">>,
      <<"ji", "bae", "gi", "eop", "so", "yu", "ju">> }

KwJabonChonggye == <<"ja", "bon", "chong", "gye">>

equity_ids == << <<"ifrs", "full", "equity">>, <<"ifrs", "equity">> >>

capex_keywords ==
    << <<"yu", "hyeong", "ja", "san", "ui", " ", "chwi", "deuk">>,
       <<"yu", "hyeong", "ja", "san", "chwi", "deuk">>,
       <<"yu", "hyeong", "ja", "san", "ui", "chwi", "deuk">> >>

opcf_keywords ==
    << <<"yeong", "eop", "hwal", "dong", "eu", "ro", " ", "in", "han", " ",
         "hyeon", "geum", "heu", "reum">>,
       <<"yeong", "eop", "hwal", "dong", "hyeon", "geum", "heu", "reum">>,
       <<"yeong", "eop", "hwal", "dong", "eu", "ro", "in", "han",
         "hyeon", "geum", "heu", "reum">>,
       <<"yeong", "eop", "hwal", "dong", "eu", "ro", " ", "in", "han",
         "hyeon", "geum", "heu", "reum">> >>

opcf_ids ==
    << <<"ifrs", "full", "cashflowsfromusedinoperatingactivities">>,
       <<"ifrs", "cashflowsfromusedinoperatingactivities">> >>

-----------------------------------------------------------------------------
(* Account Matcher: pick_is_core_from_rows *)

AnyIn(nm, kws) == \E k \in kws : Contains(nm, k)

\* a wrong start: the amounts begin at 0, not at None
IsCoreInit_Zero ==
    [rev |-> Some(0), cogs |-> Some(0), sga |-> Some(0), op |-> Some(0),
     ni |-> Some(0), selling |-> None, admin |-> None]

IsCoreInit ==
    [rev |-> None, cogs |-> None, sga |-> None, op |-> None, ni |-> None,
     selling |-> None, admin |-> None]

\* lines 606-620: the identifier tests of one row with a value
IdPut(out, aid, val) ==
    LET ids == [rev |-> revenue_ids, cogs |-> cogs_ids, sga |-> sga_ids,
                op |-> op_ids, ni |-> ni_ids, selling |-> {}, admin |-> {}]
    IN  IF IsNone(val) THEN out
        ELSE [k \in DOMAIN out |->
                IF IsNone(out[k]) /\ aid \in ids[k] THEN val ELSE out[k]]

\* one iteration of the identifier loop (1)
IdPassStep(out, item) ==
    IF UpperSj(item.sj_div) \notin {"IS", "CIS"} THEN out
    ELSE IdPut(out, normalize_account_id(item.account_id), pick_numeric_amount(item))

RevenueName(nm) ==
    \/ nm = KwMaechulaek
    \/ Contains(nm, KwSuikMaechulaek)
    \/ nm = KwSuik
    \/ Contains(nm, KwYeongeopSuik)
    \/ Contains(nm, KwGogaekgwauiGyeyak)

CogsName(nm) ==
    \/ Contains(nm, KwMaechulWonga)
    \/ (Contains(nm, KwWonga) /\ ~Contains(nm, KwPanmae) /\ ~Contains(nm, KwGwanri))

\* lines 631-660: the keys whose name test the label passes
NameHits(nm) ==
    (IF RevenueName(nm) THEN {"rev"} ELSE {})
        \cup (IF CogsName(nm) THEN {"cogs"} ELSE {})
        \cup (IF AnyIn(nm, SgaNameKeywords) THEN {"sga"} ELSE {})
        \cup (IF Contains(nm, KwPanmaebi) THEN {"selling"} ELSE {})
        \cup (IF Contains(nm, KwGwanribi) THEN {"admin"} ELSE {})
        \cup (IF AnyIn(nm, OpNameKeywords) THEN {"op"} ELSE {})
        \cup (IF AnyIn(nm, NiNameKeywords) THEN {"ni"} ELSE {})

NamePut(out, hits, val) ==
    IF IsNone(val) THEN out
    ELSE [k \in DOMAIN out |-> IF IsNone(out[k]) /\ k \in hits THEN val ELSE out[k]]

\* one iteration of the name loop (2)
NamePassStep(out, item) ==
    IF UpperSj(item.sj_div) \notin {"IS", "CIS"} THEN out
    ELSE NamePut(out, NameHits(normalize_account_name(item.account_nm)),
                 pick_numeric_amount(item))

RECURSIVE IdPass(_, _)
IdPass(out, rws) ==
    IF rws = <<>> THEN out ELSE IdPass(IdPassStep(out, Head(rws)), Tail(rws))

RECURSIVE NamePass(_, _)
NamePass(out, rws) ==
    IF rws = <<>> THEN out ELSE NamePass(NamePassStep(out, Head(rws)), Tail(rws))

\* a wrong fallback: one part is enough for the sum
SgaFallback_OnePart(out) ==
    [rev |-> out.rev, cogs |-> out.cogs, op |-> out.op, ni |-> out.ni,
     sga |-> IF IsNone(out.sga) /\ (NotNone(out.selling) \/ NotNone(out.admin))
             THEN Some((IF NotNone(out.selling) THEN Val(out.selling) ELSE 0)
                       + (IF NotNone(out.admin) THEN Val(out.admin) ELSE 0))
             ELSE out.sga]

\* lines 662-665: SG&A from its two parts, and the five metrics returned
SgaFallback(out) ==
    [rev |-> out.rev, cogs |-> out.cogs, op |-> out.op, ni |-> out.ni,
     sga |-> IF IsNone(out.sga) /\ NotNone(out.selling) /\ NotNone(out.admin)
             THEN Some(Val(out.selling) + Val(out.admin))
             ELSE out.sga]

\* a wrong order of the passes: names are matched before identifiers
pick_is_core_from_rows_NameFirst(fin_list) ==
    SgaFallback(IdPass(NamePass(IsCoreInit, fin_list), fin_list))

pick_is_core_from_rows(fin_list) ==
    SgaFallback(NamePass(IdPass(IsCoreInit, fin_list), fin_list))

-----------------------------------------------------------------------------
(* Account Matcher: find_amount *)

SeqToSet(s) == { s[i] : i \in 1..Len(s) }

\* no statement filter: every row is scanned
AllowedSj_Any(sj_div) == {}

\* allowed_sj; sj_div = "" stands for the default None
AllowedSj(sj_div) ==
    IF sj_div = "" THEN {}
    ELSE {UpperSj(sj_div)} \cup (IF UpperSj(sj_div) = "IS" THEN {"CIS"} ELSE {})

\* lines 685-693: the row matches by identifier or by a keyword
FindAmountMatch(account_id, account_nm, target_ids, kws) ==
    \/ target_ids # {} /\ account_id \in target_ids
    \/ \E kw \in kws : kw # <<>> /\ Contains(account_nm, kw)

\* the body of the row loop: the amount the row returns, or None to go on
FindAmountRow(item, keywords, sj_div, account_ids) ==
    IF AllowedSj(sj_div) # {} /\ UpperSj(item.sj_div) \notin AllowedSj(sj_div)
    THEN None
    ELSE IF FindAmountMatch(normalize_account_id(item.account_id),
                            RemoveChar(item.account_nm, " "),
                            { normalize_account_id(x) : x \in SeqToSet(account_ids) },
                            { RemoveChar(kw, " ") : kw \in SeqToSet(keywords) })
    THEN pick_numeric_amount(item)
    ELSE None

RECURSIVE find_amount(_, _, _, _)
find_amount(fin_list, keywords, sj_div, account_ids) ==
    IF fin_list = <<>> THEN None
    ELSE OrElse(FindAmountRow(Head(fin_list), keywords, sj_div, account_ids),
                find_amount(Tail(fin_list), keywords, sj_div, account_ids))

-----------------------------------------------------------------------------
(* Metric Aggregator: parse_metrics *)

\* a / b of two ints, kept as the exact fraction <<a, b>> (b # 0)
Div(a, b) == <<a, b>>

\* two fractions with the same value
SameRatio(x, y) == x[1] * y[2] = y[1] * x[2]

\* record keys: revenue '매출액', cogs '매출원가', sga '판관비',
\* op_income '영업이익', net_income '당기순이익', equity '자본총계',
\* capex 'CAPEX', op_cash_flow '영업활동현금흐름', op_margin '영업이익률', roe 'ROE'
MetricKeys ==
    {"revenue", "cogs", "sga", "op_income", "net_income", "equity", "capex",
     "op_cash_flow"}

\* a wrong guard: the zero test of the denominators is missing
MetricsRecord_NoZeroGuard(is_core, eq, capex, opcf) ==
    [revenue |-> is_core.rev, cogs |-> is_core.cogs, sga |-> is_core.sga,
     op_income |-> is_core.op, net_income |-> is_core.ni, equity |-> eq,
     capex |-> IF NotNone(capex) THEN Some(Abs(Val(capex))) ELSE None,
     op_cash_flow |-> opcf,
     op_margin |-> IF NotNone(is_core.rev) /\ NotNone(is_core.op)
                   THEN Some(Div(Val(is_core.op), Val(is_core.rev)))
                   ELSE None,
     roe |-> IF NotNone(eq) /\ NotNone(is_core.ni)
             THEN Some(Div(Val(is_core.ni), Val(eq)))
             ELSE None]

\* a missing abs: the matched amount is returned with its sign
MetricsRecord_NoAbs(is_core, eq, capex, opcf) ==
    [revenue |-> is_core.rev, cogs |-> is_core.cogs, sga |-> is_core.sga,
     op_income |-> is_core.op, net_income |-> is_core.ni, equity |-> eq,
     capex |-> capex,
     op_cash_flow |-> opcf,
     op_margin |-> IF NotNone(is_core.rev) /\ Val(is_core.rev) # 0
                      /\ NotNone(is_core.op)
                   THEN Some(Div(Val(is_core.op), Val(is_core.rev)))
                   ELSE None,
     roe |-> IF NotNone(eq) /\ Val(eq) # 0 /\ NotNone(is_core.ni)
             THEN Some(Div(Val(is_core.ni), Val(eq)))
             ELSE None]

\* lines 700-727: the record m from the matched amounts
MetricsRecord(is_core, eq, capex, opcf) ==
    [revenue |-> is_core.rev, cogs |-> is_core.cogs, sga |-> is_core.sga,
     op_income |-> is_core.op, net_income |-> is_core.ni, equity |-> eq,
     capex |-> IF NotNone(capex) THEN Some(Abs(Val(capex))) ELSE None,
     op_cash_flow |-> opcf,
     op_margin |-> IF NotNone(is_core.rev) /\ Val(is_core.rev) # 0
                      /\ NotNone(is_core.op)
                   THEN Some(Div(Val(is_core.op), Val(is_core.rev)))
                   ELSE None,
     roe |-> IF NotNone(eq) /\ Val(eq) # 0 /\ NotNone(is_core.ni)
             THEN Some(Div(Val(is_core.ni), Val(eq)))
             ELSE None]

parse_metrics(fin_list) ==
    MetricsRecord(pick_is_core_from_rows(fin_list),
                  find_amount(fin_list, <<KwJabonChonggye>>, "BS", equity_ids),
                  find_amount(fin_list, capex_keywords, "CF", <<>>),
                  find_amount(fin_list, opcf_keywords, "CF", opcf_ids))

-----------------------------------------------------------------------------
(* Filing rows handed to parse_metrics by the harness.  A ledger is a small *)
(* set of rows about one metric; a row list is made of rows of one ledger.  *)

NmOther == <<"gi", "ta">>

Amt(n) == FormatAmount(n, "paren", TRUE)

\* the sample identifier (as filed, before normalisation) and label of each
\* metric, with an eligible, a second eligible and an ineligible statement
MetricSamples ==
    << [key |-> "revenue", sj |-> "IS", sj2 |-> "CIS", bad |-> "BS",
        id |-> <<"ifrs", "-", "Full", "_", "Revenue">>,
        nm |-> <<"ROMAN1", ".", " ", "mae", "chul", "aek">>],
       [key |-> "cogs", sj |-> "IS", sj2 |-> "CIS", bad |-> "CF",
        id |-> <<"ifrs", "-", "full", "_", "CostOfSales">>,
        nm |-> <<"mae", "chul", "won", "ga">>],
       [key |-> "sga", sj |-> "CIS", sj2 |-> "IS", bad |-> "BS",
        id |-> <<"dart", "_", "TotalSellingGeneralAdministrativeExpenses">>,
        nm |-> <<"pan", "mae", "bi", "wa", " ", "gwan", "ri", "bi">>],
       [key |-> "op_income", sj |-> "IS", sj2 |-> "cis", bad |-> "CF",
        id |-> <<"dart", "_", "OperatingIncomeLoss">>,
        nm |-> <<"yeong", "eop", "i", "ik", "(", "son", "sil", ")">>],
       [key |-> "net_income", sj |-> "CIS", sj2 |-> "IS", bad |-> "BS",
        id |-> <<"ifrs", "-", "full", "_", "ProfitLoss">>,
        nm |-> <<"dang", "gi", "sun", "i", "ik">>],
       [key |-> "equity", sj |-> "BS", sj2 |-> "bs", bad |-> "IS",
        id |-> <<"ifrs", "-", "full", "_", "Equity">>,
        nm |-> <<"ja", "bon", " ", "chong", "gye">>],
       [key |-> "op_cash_flow", sj |-> "CF", sj2 |-> "CF", bad |-> "IS",
        id |-> <<"ifrs", "-", "full", "_", "CashFlowsFromUsedInOperatingActivities">>,
        nm |-> <<"yeong", "eop", "hwal", "dong", " ", "hyeon", "geum", "heu", "reum">>],
       [key |-> "capex", sj |-> "CF", sj2 |-> "cf", bad |-> "IS",
        id |-> <<>>,
        nm |-> <<"yu", "hyeong", "ja", "san", "ui", " ", "chwi", "deuk">>] >>

\* rows about one metric: identifier only, label only (twice), both on the
\* second eligible statement, both on an ineligible statement, both with an
\* unparseable amount
MetricLedger(m) ==
    { Row(m.sj, m.id, NmOther, Amt(1100), <<>>),
      Row(m.sj, <<>>, m.nm, Amt(2200), <<>>),
      Row(m.sj2, m.id, m.nm, Amt(-3300), <<>>),
      Row(m.bad, m.id, m.nm, Amt(4400), <<>>),
      Row(m.sj, m.id, m.nm, <<"-">>, <<>>),
      Row(m.sj, <<>>, m.nm, Amt(6600), <<>>) }

\* revenue and operating income, for the operating margin
MarginLedger ==
    { Row("IS", MetricSamples[1].id, NmOther, <<"0">>, <<>>),
      Row("IS", <<>>, MetricSamples[1].nm, Amt(2000), <<>>),
      Row("IS", MetricSamples[4].id, NmOther, Amt(500), <<>>),
      Row("CIS", <<>>, MetricSamples[4].nm, Amt(-300), <<>>),
      Row("IS", <<>>, MetricSamples[4].nm, <<"0">>, <<>>) }

\* net income and total equity, for the ROE
RoeLedger ==
    { Row("IS", MetricSamples[5].id, NmOther, Amt(400), <<>>),
      Row("IS", <<>>, MetricSamples[5].nm, Amt(-100), <<>>),
      Row("BS", MetricSamples[6].id, NmOther, <<"0">>, <<>>),
      Row("BS", <<>>, MetricSamples[6].nm, Amt(2000), <<>>),
      Row("BS", MetricSamples[6].id, MetricSamples[6].nm, Amt(-5000), <<>>) }

\* selling and administrative expense lines, and a line of cost of sales
\* together with them
SgaLedger ==
    { Row("IS", <<>>, <<"pan", "mae", "bi">>, Amt(100), <<>>),
      Row("IS", <<>>, <<"gwan", "ri", "bi">>, Amt(20), <<>>),
      Row("IS", <<>>, <<"pan", "mae", "bi", ",", " ", "gwan", "ri", "bi">>, Amt(3), <<>>),
      Row("IS", <<>>, <<"pan", "gwan", "bi">>, Amt(4000), <<>>),
      Row("IS", MetricSamples[3].id, NmOther, Amt(50000), <<>>),
      Row("IS", <<>>, <<"pan", "mae", "bi", "(", "won", "ga", ")">>, Amt(600000), <<>>),
      Row("IS", <<>>, <<"mae", "chul", "won", "ga", " ", "mich", " ",
                        "pan", "mae", "bi", "wa", "gwan", "ri", "bi">>,
          Amt(7000000), <<>>) }

\* cumulative (thstrm_add_amount) and period (thstrm_amount) amounts
AmountLedger ==
    { Row("IS", <<>>, KwMaechulaek, Amt(100), Amt(200)),
      Row("IS", <<>>, KwMaechulaek, Amt(300), <<>>),
      Row("IS", <<>>, KwMaechulaek, Amt(400), <<"0">>),
      Row("IS", <<>>, KwMaechulaek, Amt(500), <<"-">>),
      Row("IS", <<>>, KwMaechulaek, <<>>, <<>>),
      Row("IS", <<>>, KwMaechulaek, <<"N", "/", "A">>, Amt(-700)) }

\* the capital expenditure line with a minus sign, the same label on the
\* income statement, and a cash-flow line matched by identifier only
CapexLedger ==
    { Row("CF", <<>>, MetricSamples[8].nm, FormatAmount(-50000, "minus", TRUE), <<>>),
      Row("IS", <<>>, MetricSamples[8].nm, Amt(70000), <<>>),
      Row("CF", MetricSamples[7].id, NmOther, Amt(-900), <<>>) }

Ledgers ==
    { MetricLedger(MetricSamples[i]) : i \in 1..Len(MetricSamples) }
        \cup {MarginLedger, RoeLedger, SgaLedger, AmountLedger, CapexLedger}

\* most rows of one list handed to parse_metrics by the harness
MaxRows == 3

RowLists == UNION { [1..k -> L] : k \in 0..MaxRows, L \in Ledgers }

-----------------------------------------------------------------------------
(* parse_metrics harness *)

\* a caller holds a row list
LoadRows ==
    /\ mt_pc = "idle"
    /\ \E rws \in RowLists : mt_rows' = rws
    /\ mt_pc' = "ready"
    /\ UNCHANGED <<mt_result, amt_vars, q_vars, glue_vars>>

ParseMetrics ==
    /\ mt_pc = "ready"
    /\ mt_result' = parse_metrics(mt_rows)
    /\ mt_pc' = "done"
    /\ UNCHANGED <<mt_rows, amt_vars, q_vars, glue_vars>>

MtNext == LoadRows \/ ParseMetrics

SpecMetrics == Init /\ [][MtNext]_vars

-----------------------------------------------------------------------------
(* Quarter Decomposer: calc_quarter, calc_quarter_q4_safe *)

\* a wrong null rule: a missing prior cumulative makes the quarter null
calc_quarter_NullPrev(annual, prev_cum) ==
    IF IsNone(annual) THEN None
    ELSE IF IsNone(prev_cum) THEN None
    ELSE Some(Val(annual) - Val(prev_cum))

calc_quarter(annual, prev_cum) ==
    IF IsNone(annual) THEN None
    ELSE IF IsNone(prev_cum) THEN annual
    ELSE Some(Val(annual) - Val(prev_cum))

\* a missing guard: plain subtraction
calc_quarter_q4_safe_NoGuard(fy_cum, q3_cum) ==
    IF IsNone(fy_cum) THEN None
    ELSE IF IsNone(q3_cum) THEN fy_cum
    ELSE Some(Val(fy_cum) - Val(q3_cum))

\* a guard that is too eager: FY = 9M keeps the FY value too
calc_quarter_q4_safe_StrictGuard(fy_cum, q3_cum) ==
    IF IsNone(fy_cum) THEN None
    ELSE IF IsNone(q3_cum) THEN fy_cum
    ELSE IF Val(fy_cum) > Val(q3_cum) THEN Some(Val(fy_cum) - Val(q3_cum))
    ELSE fy_cum

\* a guard the wrong way round: FY is kept when it is not below 9M
calc_quarter_q4_safe_Reversed(fy_cum, q3_cum) ==
    IF IsNone(fy_cum) THEN None
    ELSE IF IsNone(q3_cum) THEN fy_cum
    ELSE IF Val(fy_cum) < Val(q3_cum) THEN Some(Val(fy_cum) - Val(q3_cum))
    ELSE fy_cum

calc_quarter_q4_safe(fy_cum, q3_cum) ==
    IF IsNone(fy_cum) THEN None
    ELSE IF IsNone(q3_cum) THEN fy_cum
    ELSE IF Val(fy_cum) >= Val(q3_cum) THEN Some(Val(fy_cum) - Val(q3_cum))
    ELSE fy_cum

\* REPRT_CODES, in the order of the dict: Q1, H1, Q3 (nine months), FY
ReprtKeys == <<"Q1", "H1", "Q3", "FY">>

REPRT_CODES == [Q1 |-> "11013", H1 |-> "11012", Q3 |-> "11014", FY |-> "11011"]

FlowKeys ==
    {"revenue", "cogs", "sga", "op_income", "net_income", "capex", "op_cash_flow"}

\* {} as returned by fetch_report_metrics for no rows: every .get(k) is None
EmptyMetrics ==
    [revenue |-> None, cogs |-> None, sga |-> None, op_income |-> None,
     net_income |-> None, equity |-> None, capex |-> None, op_cash_flow |-> None,
     op_margin |-> None, roe |-> None]

\* n / f for an int n and a fraction f (f[1] # 0)
DivByRatio(n, f) == <<n * f[2], f[1]>>

\* the ratio loop body without the zero test on revenue
QuarterRatios_NoZeroGuard(q_data, eq_curr, eq_prev) ==
    LET rev == q_data.revenue
        op  == q_data.op_income
        ni  == q_data.net_income
        avg_eq == Div(Val(eq_curr) + Val(eq_prev), 2)
    IN  [q_data EXCEPT
           !.op_margin = IF NotNone(rev) /\ NotNone(op)
                         THEN Some(Div(Val(op), Val(rev)))
                         ELSE None,
           !.roe = IF /\ NotNone(ni)
                      /\ eq_curr \notin {None, Some(0)}
                      /\ eq_prev \notin {None, Some(0)}
                   THEN IF avg_eq[1] # 0
                        THEN Some(DivByRatio(Val(ni) * 4, avg_eq))
                        ELSE None
                   ELSE None]

\* the ratio loop body without the annualisation
QuarterRatios_NotAnnualized(q_data, eq_curr, eq_prev) ==
    LET rev == q_data.revenue
        op  == q_data.op_income
        ni  == q_data.net_income
        avg_eq == Div(Val(eq_curr) + Val(eq_prev), 2)
    IN  [q_data EXCEPT
           !.op_margin = IF NotNone(rev) /\ Val(rev) # 0 /\ NotNone(op)
                         THEN Some(Div(Val(op), Val(rev)))
                         ELSE None,
           !.roe = IF /\ NotNone(ni)
                      /\ eq_curr \notin {None, Some(0)}
                      /\ eq_prev \notin {None, Some(0)}
                   THEN IF avg_eq[1] # 0
                        THEN Some(DivByRatio(Val(ni), avg_eq))
                        ELSE None
                   ELSE None]

\* the ratio loop body without the test of the average
QuarterRatios_NoAvgGuard(q_data, eq_curr, eq_prev) ==
    LET rev == q_data.revenue
        op  == q_data.op_income
        ni  == q_data.net_income
        avg_eq == Div(Val(eq_curr) + Val(eq_prev), 2)
    IN  [q_data EXCEPT
           !.op_margin = IF NotNone(rev) /\ Val(rev) # 0 /\ NotNone(op)
                         THEN Some(Div(Val(op), Val(rev)))
                         ELSE None,
           !.roe = IF /\ NotNone(ni)
                      /\ eq_curr \notin {None, Some(0)}
                      /\ eq_prev \notin {None, Some(0)}
                   THEN Some(DivByRatio(Val(ni) * 4, avg_eq))
                   ELSE None]

\* the ratio loop body of get_quarterly_metrics for one quarter
QuarterRatios(q_data, eq_curr, eq_prev) ==
    LET rev == q_data.revenue
        op  == q_data.op_income
        ni  == q_data.net_income
        avg_eq == Div(Val(eq_curr) + Val(eq_prev), 2)
    IN  [q_data EXCEPT
           !.op_margin = IF NotNone(rev) /\ Val(rev) # 0 /\ NotNone(op)
                         THEN Some(Div(Val(op), Val(rev)))
                         ELSE None,
           !.roe = IF /\ NotNone(ni)
                      /\ eq_curr \notin {None, Some(0)}
                      /\ eq_prev \notin {None, Some(0)}
                   THEN IF avg_eq[1] # 0
                        THEN Some(DivByRatio(Val(ni) * 4, avg_eq))
                        ELSE None
                   ELSE None]

\* lines 813-816 missing: equity is left as the loops over keys made it
Decompose_EquityDecomposed(cum, prev_eq) ==
    LET q1 == [k \in MetricKeys |-> cum.Q1[k]]
        q2 == [k \in MetricKeys |-> calc_quarter(cum.H1[k], q1[k])]
        q3 == [k \in MetricKeys |-> calc_quarter(cum.Q3[k], cum.H1[k])]
        q4 == [k \in MetricKeys |->
                 IF k \in FlowKeys
                 THEN calc_quarter_q4_safe(cum.FY[k], cum.Q3[k])
                 ELSE calc_quarter(cum.FY[k], cum.Q3[k])]
        eq_end == <<q1.equity, q2.equity, q3.equity, q4.equity>>
        WithEq(q, idx) ==
            [k \in MetricKeys \cup {"op_margin", "roe"} |->
                IF k \in MetricKeys THEN q[k] ELSE None]
        Ratios(q, idx) ==
            QuarterRatios(WithEq(q, idx), eq_end[idx],
                          IF idx = 1 THEN prev_eq ELSE eq_end[idx - 1])
    IN  <<Ratios(q1, 1), Ratios(q2, 2), Ratios(q3, 3), Ratios(q4, 4)>>

\* lines 795-844 of get_quarterly_metrics: the quarters from the four
\* cumulative records (fin) and the prior year's equity
Decompose(cum, prev_eq) ==
    LET q1 == [k \in MetricKeys |-> cum.Q1[k]]
        q2 == [k \in MetricKeys |-> calc_quarter(cum.H1[k], q1[k])]
        q3 == [k \in MetricKeys |-> calc_quarter(cum.Q3[k], cum.H1[k])]
        q4 == [k \in MetricKeys |->
                 IF k \in FlowKeys
                 THEN calc_quarter_q4_safe(cum.FY[k], cum.Q3[k])
                 ELSE calc_quarter(cum.FY[k], cum.Q3[k])]
        eq_end == <<cum.Q1.equity, cum.H1.equity, cum.Q3.equity, cum.FY.equity>>
        WithEq(q, idx) ==
            [k \in MetricKeys \cup {"op_margin", "roe"} |->
                IF k = "equity" THEN eq_end[idx]
                ELSE IF k \in MetricKeys THEN q[k]
                ELSE None]
        Ratios(q, idx) ==
            QuarterRatios(WithEq(q, idx), eq_end[idx],
                          IF idx = 1 THEN prev_eq ELSE eq_end[idx - 1])
    IN  <<Ratios(q1, 1), Ratios(q2, 2), Ratios(q3, 3), Ratios(q4, 4)>>

-----------------------------------------------------------------------------
(* The disclosure source (DART) as get_fin_data sees it.  A response is    *)
(* what requests.get(...).json() gives: raised (the call or the decoding   *)
(* threw), or a body with a status and a list.                             *)

\* largest level of a cumulative amount in a filing
MaxLevel == 2

Levels == 0..MaxLevel

\* most requests of one run that fail (exception, error status, empty body)
MaxFailures == 1

\* income rows of level a: revenue by identifier, cost of sales by label,
\* selling and administrative expenses as two lines, operating income by
\* identifier, net income by label; cumulative and three-month amounts
IncomeRows(sj, a) ==
    << Row(sj, MetricSamples[1].id, NmOther, Amt(7), Amt(1000 * a)),
       Row(sj, <<>>, MetricSamples[2].nm, Amt(7), Amt(600 * a)),
       Row(sj, <<>>, <<"pan", "mae", "bi">>, Amt(7), Amt(100 * a)),
       Row(sj, <<>>, <<"gwan", "ri", "bi">>, Amt(7), Amt(50 * a)),
       Row(sj, MetricSamples[4].id, NmOther, Amt(7), Amt(250 * a - 100)),
       Row(sj, <<>>, MetricSamples[5].nm, Amt(7), Amt(200 * a - 300)) >>

\* rows of an income request that match no metric
NoteRows(sj) == << Row(sj, <<>>, NmOther, Amt(9), <<>>) >>

\* the equity levels of a balance sheet: a deficit, nothing, two surpluses
EquityLevels == {0, 1, 2, 4}

\* balance-sheet rows of level e: total equity -4,000, 0, 4,000, ...
BalanceRows(e) ==
    << Row("BS", MetricSamples[6].id, MetricSamples[6].nm, Amt(4000 * (e - 1)), <<>>) >>

\* cash-flow rows of level c: operating cash flow and the capex outflow
CashRows(c) ==
    << Row("CF", MetricSamples[7].id, NmOther, Amt(500 * c - 200), <<>>),
       Row("CF", <<>>, MetricSamples[8].nm, Amt(-300 * c), <<>>) >>

\* the companies of the model:
\*  "A" files consolidated and standalone, both statement variants; its
\*      income amounts vary
\*  "B" files standalone only, with a comprehensive income statement only
\*      (its consolidated request returns note rows); its equity varies,
\*      and its half-year income
\*  "C" files nothing
\*  "D" files an annual report only, consolidated, comprehensive income
\*  "F" files like "A" with fixed income amounts; its cash flows vary
Corps == {"A", "B", "C", "D", "F", "N"}

Years == {2023}

\* the row lists the source holds for a request (none: no such filing)
Filed(corp, reprt, fs_div, sj_div) ==
    IF corp = "A" THEN
        IF sj_div \in {"IS", "CIS"} THEN { IncomeRows(sj_div, a) : a \in Levels }
        ELSE IF sj_div = "BS" THEN { BalanceRows(2) }
        ELSE { CashRows(1) }
    ELSE IF corp = "B" THEN
        IF fs_div = "CFS" THEN (IF sj_div = "CIS" THEN { NoteRows("CIS") } ELSE {})
        ELSE IF sj_div = "IS" THEN {}
        ELSE IF sj_div = "CIS"
             THEN (IF reprt = REPRT_CODES.H1
                   THEN { IncomeRows("CIS", 1), IncomeRows("CIS", 2) }
                   ELSE { IncomeRows("CIS", 1) })
        ELSE IF sj_div = "BS" THEN { BalanceRows(e) : e \in EquityLevels }
        ELSE { CashRows(1) }
    ELSE IF corp = "D" THEN
        IF reprt # REPRT_CODES.FY \/ fs_div # "CFS" \/ sj_div = "IS" THEN {}
        ELSE IF sj_div = "CIS" THEN { IncomeRows("CIS", 1) }
        ELSE IF sj_div = "BS" THEN { BalanceRows(2) }
        ELSE { CashRows(1) }
    ELSE IF corp = "F" THEN
        IF sj_div \in {"IS", "CIS"} THEN { IncomeRows(sj_div, 1) }
        ELSE IF sj_div = "BS" THEN { BalanceRows(2) }
        ELSE { CashRows(c) : c \in Levels }
    ELSE {}

OkResponse(list) == [raised |-> FALSE, status |-> "000", list |-> list]

\* "013": no data for the request
NoDataResponse == [raised |-> FALSE, status |-> "013", list |-> <<>>]

\* a network error or undecodable body, an error status, a success status
\* without a list
FailedResponses ==
    { [raised |-> TRUE, status |-> "", list |-> <<>>],
      [raised |-> FALSE, status |-> "020", list |-> NoteRows("IS")],
      [raised |-> FALSE, status |-> "000", list |-> <<>>] }

\* the answers a request can get when `failed` requests have failed so far;
\* for corporation N the source is unreachable: every request raises
Responses(corp, reprt, fs_div, sj_div, failed) ==
    LET filed == Filed(corp, reprt, fs_div, sj_div)
    IN  IF corp = "N"
        THEN { r \in FailedResponses : r.raised }
        ELSE (IF filed = {} THEN {NoDataResponse}
                            ELSE { OkResponse(l) : l \in filed })
                \cup (IF failed < MaxFailures THEN FailedResponses ELSE {})

\* get_fin_data without the success test: any body's list is returned
get_fin_data_AnyStatus(resp) ==
    IF resp.raised THEN <<>> ELSE resp.list

\* get_fin_data, from the response on
get_fin_data(resp) ==
    IF resp.raised THEN <<>>
    ELSE IF resp.status = "000" /\ resp.list # <<>> THEN resp.list
    ELSE <<>>

-----------------------------------------------------------------------------
(* get_quarterly_metrics(corp_code, year) as a process: one step per       *)
(* get_fin_data request.                                                   *)
(*   q_pc      "idle", "detect" (inside detect_fs_sj_by_quarter_logic),    *)
(*             "detected" (it returned), "fetch" (the loop of line 791),   *)
(*             "prev_eq" (line 819), "done"                                *)
(*   probes    the requests of the detector so far, each with its answer   *)
(*   basis     <<fs_div, sj_div>> of line 787, <<>> before                 *)
(*   snap/part the report (index in ReprtKeys) and the request (1 income,  *)
(*             2 BS, 3 CF) fetch_report_metrics is at; rows its list       *)
(*   fetched   the requests fetch_report_metrics issued (history)          *)
(*   failures  the requests that failed so far                             *)

\* the combinations in the order the three nested loops visit them
ProbeOrder ==
    [i \in 1..16 |->
        [reprt  |-> REPRT_CODES[ReprtKeys[((i - 1) \div 4) + 1]],
         fs_div |-> <<"CFS", "OFS">>[(((i - 1) \div 2) % 2) + 1],
         sj_div |-> <<"IS", "CIS">>[((i - 1) % 2) + 1]]]

\* a detector that takes any non-empty answer
DetectUsable_NonEmpty(rws) == rws # <<>>

\* lines 756-759: the rows of a probe make the detector return
DetectUsable(rws) ==
    /\ rws # <<>>
    /\ LET metrics == parse_metrics(rws)
       IN  \E k \in {"revenue", "op_income", "net_income"} : NotNone(metrics[k])

\* fetch_report_metrics asking for the balance sheet and the cash flows on
\* the consolidated basis whatever fs_div is
ReportRequest_Consolidated(reprt, fs_div, sj_div, p) ==
    [reprt |-> reprt,
     fs_div |-> IF p = 1 THEN fs_div ELSE "CFS",
     sj_div |-> <<sj_div, "BS", "CF">>[p]]

\* lines 768-770: the p-th request of fetch_report_metrics
ReportRequest(reprt, fs_div, sj_div, p) ==
    [reprt |-> reprt, fs_div |-> fs_div, sj_div |-> <<sj_div, "BS", "CF">>[p]]

\* a failed answer counts against the budget
Failed(resp) == IF resp \in FailedResponses THEN 1 ELSE 0

\* line 781: the call
QStart ==
    /\ q_pc = "idle"
    /\ \E c \in Corps, y \in Years : corp_code' = c /\ year' = y
    /\ q_pc' = "detect"
    /\ UNCHANGED <<probes, basis, snap, part, rows, fin, fetched, failures,
                   prev_year_eq, quarters, amt_vars, mt_vars, glue_vars>>

\* lines 752-761: one iteration of the innermost loop on the rows
\* get_fin_data returned; the return of the pair, or of the default after
\* the last combination
DetectStep(fin_list) ==
    LET i == Len(probes) + 1
        c == ProbeOrder[i]
    IN  IF DetectUsable(fin_list)
        THEN basis' = <<c.fs_div, c.sj_div>> /\ q_pc' = "detected"
        ELSE IF i = 16
        THEN basis' = <<"CFS", "IS">> /\ q_pc' = "detected"
        ELSE UNCHANGED <<basis, q_pc>>

DetectProbe ==
    /\ q_pc = "detect"
    /\ LET c == ProbeOrder[Len(probes) + 1]
       IN  \E resp \in Responses(corp_code, c.reprt, c.fs_div, c.sj_div, failures) :
              /\ probes' = Append(probes, [req |-> c, resp |-> resp])
              /\ failures' = failures + Failed(resp)
              /\ DetectStep(get_fin_data(resp))
    /\ UNCHANGED <<corp_code, year, snap, part, rows, fin, fetched,
                   prev_year_eq, quarters, amt_vars, mt_vars, glue_vars>>

\* the report and the part of it the next request of the fetch is for
FetchSnap == IF q_pc = "detected" THEN 1 ELSE snap

FetchPart == IF q_pc = "detected" THEN 1 ELSE part

\* a fetch that asks again when a request has brought no rows
FetchStep_Retry(fin_list) ==
    IF fin_list = <<>>
    THEN /\ rows' = (IF FetchPart = 1 THEN <<>> ELSE rows)
         /\ snap' = FetchSnap
         /\ part' = FetchPart
         /\ q_pc' = "fetch"
         /\ UNCHANGED fin
    ELSE LET s == FetchSnap
             p == FetchPart
             all == (IF p = 1 THEN <<>> ELSE rows) \o fin_list
         IN  IF p < 3
             THEN /\ rows' = all
                  /\ snap' = s
                  /\ part' = p + 1
                  /\ q_pc' = "fetch"
                  /\ UNCHANGED fin
             ELSE /\ fin' = (ReprtKeys[s] :> parse_metrics(all)) @@ fin
                  /\ rows' = <<>>
                  /\ snap' = IF s < 4 THEN s + 1 ELSE 0
                  /\ part' = IF s < 4 THEN 1 ELSE 0
                  /\ q_pc' = IF s < 4 THEN "fetch" ELSE "prev_eq"

\* lines 790-792 and 766-771: one get_fin_data of fetch_report_metrics, on
\* the rows it returned; on the third, the record of the report
FetchStep(fin_list) ==
    LET s == FetchSnap
        p == FetchPart
        q == ReprtKeys[s]
        all == (IF p = 1 THEN <<>> ELSE rows) \o fin_list
    IN  IF p < 3
        THEN /\ rows' = all
             /\ snap' = s
             /\ part' = p + 1
             /\ q_pc' = "fetch"
             /\ UNCHANGED fin
        ELSE /\ fin' = (q :> (IF all # <<>> THEN parse_metrics(all)
                                             ELSE EmptyMetrics)) @@ fin
             /\ rows' = <<>>
             /\ snap' = IF s < 4 THEN s + 1 ELSE 0
             /\ part' = IF s < 4 THEN 1 ELSE 0
             /\ q_pc' = IF s < 4 THEN "fetch" ELSE "prev_eq"

FetchReport ==
    /\ q_pc \in {"detected", "fetch"}
    /\ LET req == ReportRequest(REPRT_CODES[ReprtKeys[FetchSnap]],
                                basis[1], basis[2], FetchPart)
       IN  \E resp \in Responses(corp_code, req.reprt, req.fs_div, req.sj_div, failures) :
              /\ failures' = failures + Failed(resp)
              /\ fetched' = fetched \cup {req}
              /\ FetchStep(get_fin_data(resp))
    /\ probes' = <<>>
    /\ UNCHANGED <<corp_code, year, basis, prev_year_eq, quarters,
                   amt_vars, mt_vars, glue_vars>>

\* lines 774-779 and 795-844: the prior year's closing equity from the
\* rows get_fin_data returned, then the four quarter records
EquityStep(bs_rows) ==
    LET eq == IF bs_rows = <<>> THEN None ELSE parse_metrics(bs_rows).equity
    IN  /\ prev_year_eq' = eq
        /\ quarters' = Decompose(fin, eq)
        /\ q_pc' = "done"

FetchEquityEnd ==
    /\ q_pc = "prev_eq"
    /\ \E resp \in Responses(corp_code, REPRT_CODES.FY, basis[1], "BS", failures) :
          /\ failures' = failures + Failed(resp)
          /\ EquityStep(get_fin_data(resp))
    /\ UNCHANGED <<corp_code, year, probes, basis, snap, part, rows, fin,
                   fetched, amt_vars, mt_vars, glue_vars>>

QNext == QStart \/ DetectProbe \/ FetchReport \/ FetchEquityEnd

SpecQuarter == Init /\ [][QNext]_vars

-----------------------------------------------------------------------------
(* publish_post of src/wp_publisher.py as a process: one step per request   *)
(* to the site.  The site answers a search with the posts of one status; a  *)
(* request may fail with an HTTP or network error.                          *)

\* most posts in one answer of the site's search
MaxPosts == 2

\* most tags of one post
MaxTags == 1

Companies == { <<"L", "G">>, <<"L", "G", "hwa", "hak">> }

TitleLG == <<"L", "G", " ", "ju", "ga", " ", "bun", "seok">>

TitleLGChem == <<"L", "G", "hwa", "hak", " ", "bun", "seok">>

TitleSK == <<"S", "K", " ", "bun", "seok">>

Post(id, title) == [id |-> id, title |-> title]

\* the posts the site holds, by status
DraftPosts == { Post(1, TitleLG), Post(2, TitleSK) }

PublishedPosts == { Post(3, TitleLGChem), Post(4, TitleSK) }

SeqsUpTo(S, n) == UNION { [1..k -> S] : k \in 0..n }

\* what the site answers to the search of each status
Sites ==
    { [draft |-> d, publish |-> p] :
        d \in SeqsUpTo(DraftPosts, MaxPosts), p \in SeqsUpTo(PublishedPosts, MaxPosts) }

\* lines 838-842: the id of the first post of the answer whose title
\* contains the company name
FirstTitled(posts, company_name) ==
    LET hits == { i \in 1..Len(posts) : Contains(posts[i].title, company_name) }
    IN  IF hits = {} THEN None
        ELSE Some(posts[CHOOSE i \in hits : \A j \in hits : i <= j].id)

\* a write that never looks at existing_id
PostWrite_AlwaysCreate(existing_id) ==
    [method |-> "POST", path |-> <<"posts">>]

\* lines 953-969: the write publish_post issues
PostWrite(existing_id) ==
    IF NotNone(existing_id) /\ Val(existing_id) # 0
    THEN [method |-> "PATCH", path |-> <<"posts", Val(existing_id)>>]
    ELSE [method |-> "POST", path |-> <<"posts">>]

not_pub_vars == <<amt_vars, mt_vars, q_vars, ai_vars, run_vars>>

\* line 884: the call
PubStart ==
    /\ pub_pc = "idle"
    /\ \E c \in Companies, site \in Sites, n \in 0..MaxTags :
          /\ pub_company' = c
          /\ pub_site' = site
          /\ pub_tags' = n
    /\ pub_pc' = "category"
    /\ UNCHANGED <<pub_existing, pub_lookups, pub_writes, pub_result, not_pub_vars>>

\* lines 29-37: the search of the category; an error status raises
PubCategory ==
    /\ pub_pc = "category"
    /\ \E answer \in {"found", "missing", "error"} :
          IF answer = "error"
          THEN pub_pc' = "raised" /\ pub_result' = Raise("HTTPError")
          ELSE /\ pub_pc' = IF answer = "found" THEN "tags" ELSE "category_create"
               /\ UNCHANGED pub_result
    /\ UNCHANGED <<pub_company, pub_site, pub_tags, pub_existing, pub_lookups,
                   pub_writes, not_pub_vars>>

\* lines 39-41: the category is created
PubCategoryCreate ==
    /\ pub_pc = "category_create"
    /\ pub_writes' = Append(pub_writes, [method |-> "POST", path |-> <<"categories">>])
    /\ \E answer \in {"ok", "error"} :
          IF answer = "error"
          THEN pub_pc' = "raised" /\ pub_result' = Raise("HTTPError")
          ELSE pub_pc' = "tags" /\ UNCHANGED pub_result
    /\ UNCHANGED <<pub_company, pub_site, pub_tags, pub_existing, pub_lookups,
                   not_pub_vars>>

\* lines 46-61: one tag is searched, and created if it is not there (a
\* refused creation is passed over); after the last, the content is built
PubTag ==
    /\ pub_pc = "tags"
    /\ IF pub_tags = 0
       THEN /\ pub_pc' = "find_draft"
            /\ UNCHANGED <<pub_tags, pub_writes, pub_result>>
       ELSE \E answer \in {"matched", "created", "refused", "error"} :
              /\ pub_tags' = pub_tags - 1
              /\ pub_writes' =
                    IF answer \in {"created", "refused"}
                    THEN Append(pub_writes, [method |-> "POST", path |-> <<"tags">>])
                    ELSE pub_writes
              /\ IF answer = "error"
                 THEN pub_pc' = "raised" /\ pub_result' = Raise("HTTPError")
                 ELSE UNCHANGED <<pub_pc, pub_result>>
    /\ UNCHANGED <<pub_company, pub_site, pub_existing, pub_lookups, not_pub_vars>>

\* lines 824-843: one search of find_existing_post; an error ends the
\* function with no post found
PubFind ==
    /\ pub_pc \in {"find_draft", "find_publish"}
    /\ \E answer \in {"ok", "error"} :
          LET posts == IF pub_pc = "find_draft" THEN pub_site.draft ELSE pub_site.publish
              hit == IF answer = "ok" THEN FirstTitled(posts, pub_company) ELSE None
          IN  /\ pub_lookups' = Append(pub_lookups, answer)
              /\ pub_existing' = hit
              /\ pub_pc' = IF answer = "ok" /\ IsNone(hit) /\ pub_pc = "find_draft"
                           THEN "find_publish" ELSE "write"
    /\ UNCHANGED <<pub_company, pub_site, pub_tags, pub_writes, pub_result, not_pub_vars>>

\* lines 953-983: the post is updated or created; an error status raises
PubWrite ==
    /\ pub_pc = "write"
    /\ pub_writes' = Append(pub_writes, PostWrite(pub_existing))
    /\ \E answer \in {"ok", "error"} :
          IF answer = "error"
          THEN pub_pc' = "raised" /\ pub_result' = Raise("HTTPError")
          ELSE pub_pc' = "done" /\ pub_result' = Some("link")
    /\ UNCHANGED <<pub_company, pub_site, pub_tags, pub_existing, pub_lookups,
                   not_pub_vars>>

PubNext ==
    PubStart \/ PubCategory \/ PubCategoryCreate \/ PubTag \/ PubFind \/ PubWrite

SpecPublish == Init /\ [][PubNext]_vars

-----------------------------------------------------------------------------
(* call_openai_json of src/main.py as a process: one step per attempt.  The *)
(* text of a reply is a sequence of tokens: the braces, "k:1" (one member   *)
(* of an object), the comma, "[]" (a JSON value that is no object) and "x"  *)
(* (prose).                                                                 *)

\* longest reply text among those built from the alphabet
MaxReply == 3

ReplyAlphabet == {"{", "}", "k:1", "x"}

\* replies beyond the alphabet and the bound: a value that is no object, an
\* object of two members, an object inside prose, a list inside prose
ReplySamples ==
    { <<"[]">>,
      <<"{", "k:1", ",", "k:1", "}">>,
      <<"x", "{", "k:1", "}", "x">>,
      <<"x", "[]", "x">> }

ReplyTexts == UNION { [1..n -> ReplyAlphabet] : n \in 0..MaxReply } \cup ReplySamples

\* the answers to a completion request: an error of the client, a reply
\* without choices, a reply with a text
AiResponses ==
    { [raised |-> TRUE, choices |-> <<>>], [raised |-> FALSE, choices |-> <<>>] }
        \cup { [raised |-> FALSE, choices |-> <<t>>] : t \in ReplyTexts }

\* json.loads: the number of keys of the object the text is, -1 for a value
\* that is no object, an error for anything else
JsonLoads(text) ==
    IF text = <<"[]">> THEN Some(-1)
    ELSE IF /\ Len(text) >= 2
            /\ text[1] = "{"
            /\ text[Len(text)] = "}"
            /\ \/ Len(text) = 2
               \/ /\ Len(text) % 2 = 1
                  /\ \A i \in 2..(Len(text) - 1) :
                        text[i] = IF i % 2 = 0 THEN "k:1" ELSE ","
    THEN Some(IF Len(text) = 2 THEN 0 ELSE 1)
    ELSE Raise("JSONDecodeError")

\* lines 1352-1354 and 1361-1364: the dict json.loads gave, {} for another
\* value (a dict is written by its number of keys)
ParsedDict(loaded) ==
    IF IsRaise(loaded) THEN 0 ELSE IF Val(loaded) >= 0 THEN Val(loaded) ELSE 0

\* lines 1342-1367
parse_json_from_chat_response(response) ==
    IF response.choices = <<>> THEN 0
    ELSE LET text == response.choices[1]
             braces(c) == { i \in 1..Len(text) : text[i] = c }
             start == IF braces("{") = {} THEN -1
                      ELSE CHOOSE i \in braces("{") : \A j \in braces("{") : i <= j
             end == IF braces("}") = {} THEN -1
                    ELSE CHOOSE i \in braces("}") : \A j \in braces("}") : i >= j
         IN  IF text = <<>> THEN 0
             ELSE IF ~IsRaise(JsonLoads(text)) THEN ParsedDict(JsonLoads(text))
             ELSE IF start # -1 /\ end > start
             THEN ParsedDict(JsonLoads(SubSeq(text, start, end)))
             ELSE 0

\* lines 1314-1315 and 1379
models == <<"gpt-5-mini", "gpt-5-nano">>

\* the loops the other way round: the format outside, the model inside
AttemptPlan_FormatOutside ==
    [i \in 1..12 |->
        [model |-> models[(((i - 1) \div 3) % 2) + 1],
         use_json_format |-> (i - 1) \div 6 = 0]]

\* lines 1382-1385: the attempts in the order of the three loops
AttemptPlan ==
    [i \in 1..12 |->
        [model |-> models[((i - 1) \div 6) + 1],
         use_json_format |-> ((i - 1) \div 3) % 2 = 0]]

not_ai_vars == <<amt_vars, mt_vars, q_vars, pub_vars, run_vars>>

\* line 1378: the call
AiStart ==
    /\ ai_pc = "idle"
    /\ ai_pc' = "call"
    /\ UNCHANGED <<ai_requests, ai_response, last_err, ai_result, not_ai_vars>>

\* lines 1386-1410: one attempt; after the last one that failed, line 1413
AiAttempt ==
    /\ ai_pc = "call"
    /\ LET i == Len(ai_requests) + 1
       IN  /\ ai_requests' = Append(ai_requests, AttemptPlan[i])
           /\ \E response \in AiResponses :
                 LET result == IF response.raised THEN 0
                               ELSE parse_json_from_chat_response(response)
                     err == IF response.raised THEN "APIError" ELSE "ValueError"
                 IN  /\ ai_response' = response
                     /\ IF result # 0
                        THEN /\ ai_pc' = "done"
                             /\ ai_result' = Some(result)
                             /\ UNCHANGED last_err
                        ELSE /\ last_err' = Some(err)
                             /\ IF i = Len(AttemptPlan)
                                THEN ai_pc' = "raised" /\ ai_result' = Raise(err)
                                ELSE UNCHANGED <<ai_pc, ai_result>>
    /\ UNCHANGED not_ai_vars

AiNext == AiStart \/ AiAttempt

SpecOpenAI == Init /\ [][AiNext]_vars

-----------------------------------------------------------------------------
(* run_all_pending of src/main.py as a process: the start, the single       *)
(* spreadsheet of the target mode or the listing of the scan mode, then one *)
(* step per spreadsheet of the scan.                                        *)

\* most files in the listing of the drive
MaxFiles == 3

NameSuffix == <<"-", "gi", "eop", "bun", "seok">>

\* the files of the drive: two spreadsheets of one company, one of another,
\* one without an id, one that is no analysis spreadsheet
DriveFiles ==
    { [id |-> "f1", name |-> <<"L", "G">> \o NameSuffix],
      [id |-> "f2", name |-> <<"L", "G">> \o NameSuffix],
      [id |-> "f3", name |-> <<"S", "K">> \o NameSuffix],
      [id |-> "", name |-> <<"L", "G">> \o NameSuffix],
      [id |-> "f4", name |-> <<"me", "mo">>] }

Listings == UNION { [1..n -> DriveFiles] : n \in 0..MaxFiles }

\* str.endswith of a name
NameEndsWith(s, suffix) ==
    Len(s) >= Len(suffix) /\ SubSeq(s, Len(s) - Len(suffix) + 1, Len(s)) = suffix

\* lines 2055-2058
find_analysis_spreadsheets(listing) ==
    SelectSeq(listing, LAMBDA f : NameEndsWith(f.name, NameSuffix))

\* lines 2067-2083: the loop of dedupe_analysis_files from the file fs[1] on
RECURSIVE DedupeFrom(_, _, _, _)
DedupeFrom(fs, unique, seen_ids, seen_names) ==
    IF fs = <<>> THEN unique
    ELSE LET f == Head(fs)
         IN  IF f.id = "" \/ f.id \in seen_ids
             THEN DedupeFrom(Tail(fs), unique, seen_ids, seen_names)
             ELSE IF f.name \in seen_names
             THEN DedupeFrom(Tail(fs), unique, seen_ids \cup {f.id}, seen_names)
             ELSE DedupeFrom(Tail(fs), Append(unique, f), seen_ids \cup {f.id},
                             seen_names \cup {f.name})

\* lines 2061-2085: the files kept
dedupe_analysis_files(fs) == DedupeFrom(fs, <<>>, {}, {})

\* cell A2 of the news sheet: unreadable, empty, blank or filled
Cells == { Raise("APIError"), None, Some(<<" ">>), Some(<<"x">>) }

\* lines 2046-2053
is_already_analyzed(cell) ==
    IF IsRaise(cell) THEN FALSE
    ELSE NotNone(cell) /\ RemoveChars(Val(cell), {" "}) # <<>>

\* a test that forgets the analysed state
SkipAnalysis_Never(analyzed, force) == FALSE

\* lines 2105 and 2137: the spreadsheet is passed over
SkipAnalysis(analyzed, force) == analyzed /\ ~force

\* lines 2102-2118 and 2135-2149: what is done with one spreadsheet, and
\* the count it adds to
Handle(id, opened, cell, ok) ==
    IF ~opened
    THEN [id |-> id, analyzed |-> FALSE, run_analysis |-> "no", counted |-> "failed"]
    ELSE IF SkipAnalysis(is_already_analyzed(cell), force_reanalyze)
    THEN [id |-> id, analyzed |-> TRUE, run_analysis |-> "no", counted |-> "skipped"]
    ELSE [id |-> id, analyzed |-> is_already_analyzed(cell), run_analysis |-> ok,
          counted |-> IF ok = "true" THEN "processed" ELSE "failed"]

\* the summary with one more of the count
Count(sm, key) == [sm EXCEPT ![key] = @ + 1]

not_run_vars == <<amt_vars, mt_vars, q_vars, pub_vars, ai_vars>>

\* lines 2087-2098: the environment is read and the summary is zeroed
RunStart ==
    /\ run_pc = "idle"
    /\ \E t \in {"", "t1"}, force \in BOOLEAN :
          /\ target_id' = t
          /\ force_reanalyze' = force
          /\ run_pc' = IF t # "" THEN "target" ELSE "scan"
    /\ UNCHANGED <<files, handled, summary, not_run_vars>>

\* lines 2100-2119: the target mode
RunTarget ==
    /\ run_pc = "target"
    /\ \E opened \in BOOLEAN, cell \in Cells, ok \in {"true", "false", "raise"} :
          LET h == Handle(target_id, opened, cell, ok)
          IN  /\ handled' = Append(handled, h)
              /\ summary' = Count([summary EXCEPT !.found = IF opened THEN 1 ELSE @],
                                  h.counted)
    /\ run_pc' = "returned"
    /\ UNCHANGED <<target_id, force_reanalyze, files, not_run_vars>>

\* lines 2121-2132: the listing of the scan mode and its deduplication
RunScan ==
    /\ run_pc = "scan"
    /\ \E listing \in Listings :
          LET all_files == find_analysis_spreadsheets(listing)
          IN  IF all_files = <<>>
              THEN run_pc' = "returned" /\ UNCHANGED <<files, summary>>
              ELSE /\ files' = dedupe_analysis_files(all_files)
                   /\ summary' = [summary EXCEPT
                                    !.found = Len(dedupe_analysis_files(all_files))]
                   /\ run_pc' = IF dedupe_analysis_files(all_files) = <<>>
                                THEN "returned" ELSE "loop"
    /\ UNCHANGED <<target_id, force_reanalyze, handled, not_run_vars>>

\* lines 2134-2155: one spreadsheet of the scan; after the last, the return
RunFile ==
    /\ run_pc = "loop"
    /\ \E opened \in BOOLEAN, cell \in Cells, ok \in {"true", "false", "raise"} :
          LET h == Handle(files[Len(handled) + 1].id, opened, cell, ok)
          IN  /\ handled' = Append(handled, h)
              /\ summary' = Count(summary, h.counted)
    /\ run_pc' = IF Len(handled) + 1 = Len(files) THEN "returned" ELSE "loop"
    /\ UNCHANGED <<target_id, force_reanalyze, files, not_run_vars>>

RunNext == RunStart \/ RunTarget \/ RunScan \/ RunFile

SpecRun == Init /\ [][RunNext]_vars

-----------------------------------------------------------------------------
(* Claims about the Amount Parser (specification SpecAmount) *)

\* C9: round trip.  For every rendered integer n and every supported
\* rendering of it (plain digits with a leading minus, thousands separators,
\* parenthesised magnitude, glyph-prefixed magnitude), parse_dart_int of the
\* rendering is n.
C9_RoundTrip ==
    (amt_pc = "done" /\ NotNone(amt_n)) => amt_result = amt_n

\* C9 witness: -1,001,000 rendered with the glyph and separators was parsed.
C9_Witness ==
    /\ amt_pc = "done"
    /\ amt_n = Some(-1001000)
    /\ amt_value = <<"TRI", "1", ",", "0", "0", "1", ",", "0", "0", "0">>
    /\ amt_result = Some(-1001000)

\* the stripped input is wrapped in parentheses or starts with the glyph
HasNegativeConvention(value) ==
    LET t == Strip(value)
    IN  \/ StartsWith(t, "TRI")
        \/ (StartsWith(t, "(") /\ EndsWith(t, ")"))

\* C10: negative conventions.  Every input that is wrapped in parentheses or
\* starts with the glyph, and parses to a non-null value, yields a
\* non-positive integer.
C10_NegativeConvention ==
    (amt_pc = "done" /\ HasNegativeConvention(amt_value) /\ NotNone(amt_result))
        => Val(amt_result) <= 0

\* the text handed to int(float()): stripped, without the glyph, the
\* separators and the wrapping parentheses
NumericText(value) ==
    LET t1 == IF StartsWith(Strip(value), "TRI") THEN Tail(Strip(value)) ELSE Strip(value)
        t2 == RemoveChar(t1, ",")
    IN  IF StartsWith(t2, "(") /\ EndsWith(t2, ")") THEN SubSeq(t2, 2, Len(t2) - 1) ELSE t2

\* C11: parse_dart_int never raises.  Every call returns null or one signed
\* integer; the empty string, each placeholder and every text on which the
\* numeric parse fails give null.
C11_NeverRaises ==
    amt_pc = "done" =>
        /\ amt_result = None \/ (Len(amt_result) = 1 /\ amt_result[1] \in Int)
        /\ (Strip(amt_value) = <<>> \/ Strip(amt_value) \in Placeholders)
              => amt_result = None
        /\ IsRaise(IntOfFloat(NumericText(amt_value))) => amt_result = None

\* the infinity, on which int() raises OverflowError, was parsed to null
C11_Witness ==
    /\ amt_pc = "done"
    /\ amt_value = <<"(", "inf", ")">>
    /\ IntOfFloat(NumericText(amt_value)) = Raise("OverflowError")
    /\ amt_result = None

\* C11, other cases reached: a placeholder and a text float() rejects
C11_PlaceholderReached ==
    /\ amt_pc = "done"
    /\ amt_value = <<"EMDASH">>
    /\ amt_result = None

-----------------------------------------------------------------------------
(* Claims about the Account Matcher and the Metric Aggregator              *)
(* (specification SpecMetrics)                                             *)

IsCoreMetrics == {"revenue", "cogs", "sga", "op_income", "net_income"}

\* the metrics that have an identifier allow-list
IdMetrics == IsCoreMetrics \cup {"equity", "op_cash_flow"}

\* the statement types eligible for a metric
EligibleSj(k) ==
    IF k \in IsCoreMetrics THEN {"IS", "CIS"}
    ELSE IF k = "equity" THEN {"BS"}
    ELSE {"CF"}

\* the row is of an eligible statement and carries a parseable amount
Eligible(k, item) ==
    UpperSj(item.sj_div) \in EligibleSj(k) /\ NotNone(pick_numeric_amount(item))

AllowList(k) ==
    IF k = "revenue" THEN revenue_ids
    ELSE IF k = "cogs" THEN cogs_ids
    ELSE IF k = "sga" THEN sga_ids
    ELSE IF k = "op_income" THEN op_ids
    ELSE IF k = "net_income" THEN ni_ids
    ELSE IF k = "equity" THEN SeqToSet(equity_ids)
    ELSE IF k = "op_cash_flow" THEN SeqToSet(opcf_ids)
    ELSE {}

MatchesId(k, item) == normalize_account_id(item.account_id) \in AllowList(k)

MatchesName(k, item) ==
    LET nm  == normalize_account_name(item.account_nm)
        raw == RemoveChar(item.account_nm, " ")
    IN  IF k = "revenue" THEN RevenueName(nm)
        ELSE IF k = "cogs" THEN CogsName(nm)
        ELSE IF k = "sga" THEN AnyIn(nm, SgaNameKeywords)
        ELSE IF k = "op_income" THEN AnyIn(nm, OpNameKeywords)
        ELSE IF k = "net_income" THEN AnyIn(nm, NiNameKeywords)
        ELSE IF k = "equity" THEN Contains(raw, KwJabonChonggye)
        ELSE IF k = "op_cash_flow"
             THEN \E kw \in SeqToSet(opcf_keywords) : Contains(raw, RemoveChar(kw, " "))
        ELSE \E kw \in SeqToSet(capex_keywords) : Contains(raw, RemoveChar(kw, " "))

IdRows(k, rws) ==
    { i \in 1..Len(rws) : Eligible(k, rws[i]) /\ MatchesId(k, rws[i]) }

NameOnlyRows(k, rws) ==
    { i \in 1..Len(rws) :
        Eligible(k, rws[i]) /\ MatchesName(k, rws[i]) /\ ~MatchesId(k, rws[i]) }

Min(S) == CHOOSE x \in S : \A y \in S : x <= y

\* identifier precedence for the metrics of the set ks
IdPrecedence(ks) ==
    mt_pc = "done" =>
        \A k \in ks :
            (IdRows(k, mt_rows) # {} /\ NameOnlyRows(k, mt_rows) # {})
                => mt_result[k] = pick_numeric_amount(mt_rows[Min(IdRows(k, mt_rows))])

\* C4: identifier precedence.  For every metric with an identifier
\* allow-list (the five income metrics, total equity, operating cash flow),
\* when one eligible row matches by normalised account_id and another only
\* by name, the amount returned is the identifier-matched row's, whatever
\* the order of the rows.
C4_IdPrecedence == IdPrecedence(IdMetrics)

\* the part of C4 that pick_is_core_from_rows decides
C4_IdPrecedenceIsCore == IdPrecedence(IsCoreMetrics)

\* C8: the ROE of a parse_metrics record is non-null exactly when net income
\* is non-null and total equity is non-null and non-zero, and then it is
\* net income / total equity.
C8_RoeRule ==
    mt_pc = "done" =>
        LET ok == /\ NotNone(mt_result.net_income)
                  /\ NotNone(mt_result.equity)
                  /\ Val(mt_result.equity) # 0
        IN  IF ok
            THEN /\ NotNone(mt_result.roe)
                 /\ Val(mt_result.roe)[2] # 0
                 /\ SameRatio(Val(mt_result.roe),
                              <<Val(mt_result.net_income), Val(mt_result.equity)>>)
            ELSE IsNone(mt_result.roe)

\* C8 witness: net income 400 over total equity -5,000 gave an ROE
C8_Witness ==
    /\ mt_pc = "done"
    /\ mt_result.net_income = Some(400)
    /\ mt_result.equity = Some(-5000)
    /\ NotNone(mt_result.roe)

\* C8 second case reached: equity 0 with a net income leaves the ROE null
C8_ZeroEquityReached ==
    /\ mt_pc = "done"
    /\ mt_result.net_income = Some(400)
    /\ mt_result.equity = Some(0)
    /\ IsNone(mt_result.roe)


\* the rows of the list that can give metric k its value by name: eligible
\* statement, parseable amount, matching label
NameRows(k, rws) ==
    { i \in 1..Len(rws) : Eligible(k, rws[i]) /\ MatchesName(k, rws[i]) }

\* C12: CAPEX is matched by keyword on cash-flow rows only and is null or
\* non-negative: the absolute value of the amount of the first cash-flow
\* row whose label holds a CAPEX keyword, null when there is no such row.
C12_CapexAbs ==
    mt_pc = "done" =>
        /\ NotNone(mt_result.capex) => Val(mt_result.capex) >= 0
        /\ mt_result.capex =
              IF NameRows("capex", mt_rows) = {} THEN None
              ELSE Some(Abs(Val(pick_numeric_amount(
                                    mt_rows[Min(NameRows("capex", mt_rows))]))))

\* the row "-50,000" on the cash-flow statement, behind the same label on
\* the income statement: CAPEX is 50000
C12_Witness ==
    /\ mt_pc = "done"
    /\ Len(mt_rows) = 2
    /\ mt_rows[1].sj_div = "IS" /\ mt_rows[1].account_nm = MetricSamples[8].nm
    /\ mt_rows[2].sj_div = "CF"
    /\ mt_rows[2].thstrm_amount = <<"-", "5", "0", ",", "0", "0", "0">>
    /\ mt_result.capex = Some(50000)

\* the amount of a row by the precedence rule: the cumulative amount when
\* it parses (0 included), else the period amount
AmountByPrecedence(item) ==
    IF NotNone(parse_dart_int(item.thstrm_add_amount))
    THEN parse_dart_int(item.thstrm_add_amount)
    ELSE parse_dart_int(item.thstrm_amount)

\* C16: numeric precedence per row.  The amount read from a row (seen as
\* the revenue of a list made of that one revenue row) is the parsed
\* cumulative amount when there is one, 0 included, the parsed period
\* amount otherwise, and null only when neither parses.
C16_NumericPrecedence ==
    ( /\ mt_pc = "done"
      /\ Len(mt_rows) = 1
      /\ UpperSj(mt_rows[1].sj_div) \in {"IS", "CIS"}
      /\ MatchesName("revenue", mt_rows[1]) )
    => /\ mt_result.revenue = AmountByPrecedence(mt_rows[1])
       /\ IsNone(mt_result.revenue) <=>
             ( /\ IsNone(parse_dart_int(mt_rows[1].thstrm_add_amount))
               /\ IsNone(parse_dart_int(mt_rows[1].thstrm_amount)) )

\* a cumulative amount of 0 next to a period amount of 400: the row gives 0
C16_Witness ==
    /\ mt_pc = "done"
    /\ Len(mt_rows) = 1
    /\ mt_rows[1].thstrm_add_amount = <<"0">>
    /\ mt_rows[1].thstrm_amount = Amt(400)
    /\ mt_result.revenue = Some(0)

\* C16, other cases reached: an unparseable cumulative amount, and a row
\* with no amount at all
C16_FallbackReached ==
    /\ mt_pc = "done"
    /\ Len(mt_rows) = 1
    /\ mt_rows[1].thstrm_add_amount = <<"-">>
    /\ mt_result.revenue = Some(500)

C16_NullReached ==
    /\ mt_pc = "done"
    /\ Len(mt_rows) = 1
    /\ MatchesName("revenue", mt_rows[1])
    /\ mt_rows[1].thstrm_add_amount = <<>> /\ mt_rows[1].thstrm_amount = <<>>
    /\ IsNone(mt_result.revenue)

\* the rows of the list whose statement type is one of sjs
RowsOfStatements(sjs, rws) ==
    SelectSeq(rws, LAMBDA r : UpperSj(r.sj_div) \in sjs)

\* the record agrees on the keys ks with what the rows of the statement
\* types sjs alone give, and holds null there when there is no such row
OnlyFrom(ks, sjs, only) ==
    \A k \in ks :
        /\ mt_result[k] = only[k]
        /\ RowsOfStatements(sjs, mt_rows) = <<>> => IsNone(mt_result[k])

\* C17: statement eligibility.  Each metric is what the rows of its
\* eligible statement types alone give (BS for total equity, CF for CAPEX
\* and operating cash flow, IS and CIS for the five income metrics): the
\* rows of the other statement types change nothing, and a list without an
\* eligible row gives null.
C17_StatementEligibility ==
    mt_pc = "done" =>
        /\ OnlyFrom(IsCoreMetrics, {"IS", "CIS"},
                    parse_metrics(RowsOfStatements({"IS", "CIS"}, mt_rows)))
        /\ OnlyFrom({"equity"}, {"BS"},
                    parse_metrics(RowsOfStatements({"BS"}, mt_rows)))
        /\ OnlyFrom({"capex", "op_cash_flow"}, {"CF"},
                    parse_metrics(RowsOfStatements({"CF"}, mt_rows)))

\* an income-statement row with the identifier and the label of total
\* equity comes first: equity is taken from the balance-sheet row behind it
C17_Witness ==
    /\ mt_pc = "done"
    /\ Len(mt_rows) = 2
    /\ mt_rows[1].sj_div = "IS"
    /\ MatchesId("equity", mt_rows[1]) /\ MatchesName("equity", mt_rows[1])
    /\ pick_numeric_amount(mt_rows[1]) = Some(4400)
    /\ mt_rows[2].sj_div = "BS"
    /\ mt_result.equity = Some(2200)

\* C17, both variants accepted: revenue read from a row of the
\* comprehensive income statement
C17_CisReached ==
    /\ mt_pc = "done"
    /\ Len(mt_rows) = 1
    /\ mt_rows[1].sj_div = "CIS"
    /\ mt_result.revenue = Some(-3300)

\* C18: the empty row set.  parse_metrics on a list without rows returns a
\* record with the eight metrics and the two ratios, all of them null.
C18_EmptyRows ==
    (mt_pc = "done" /\ mt_rows = <<>>) =>
        /\ DOMAIN mt_result = MetricKeys \cup {"op_margin", "roe"}
        /\ \A k \in DOMAIN mt_result : IsNone(mt_result[k])

\* parse_metrics has returned for the list without rows
C18_Witness ==
    /\ mt_pc = "done"
    /\ mt_rows = <<>>
    /\ IsNone(mt_result.revenue) /\ IsNone(mt_result.equity)
    /\ IsNone(mt_result.capex) /\ IsNone(mt_result.roe)

\* the amount of row i as metric k reports it (CAPEX as a magnitude)
ReportedAmount(k, rws, i) ==
    IF k = "capex" THEN Some(Abs(Val(pick_numeric_amount(rws[i]))))
    ELSE pick_numeric_amount(rws[i])

\* the selling-expense and administrative-expense rows the SG&A sum uses
SumRows(rws) ==
    /\ \E i \in 1..Len(rws) :
          /\ Eligible("sga", rws[i])
          /\ Contains(normalize_account_name(rws[i].account_nm), KwPanmaebi)
    /\ \E i \in 1..Len(rws) :
          /\ Eligible("sga", rws[i])
          /\ Contains(normalize_account_name(rws[i].account_nm), KwGwanribi)

\* metric k is the amount of the first row of the winning pass: of the first
\* identifier-matched row when there is one, else of the first name-matched
\* row, else null (SG&A: null unless both rows of the sum are there)
FirstOfWinningPass(k) ==
    LET ids == IdRows(k, mt_rows)
        nms == NameRows(k, mt_rows)
    IN  IF ids # {} THEN mt_result[k] = ReportedAmount(k, mt_rows, Min(ids))
        ELSE IF nms # {} THEN mt_result[k] = ReportedAmount(k, mt_rows, Min(nms))
        ELSE (k = "sga" /\ SumRows(mt_rows)) \/ mt_result[k] = None

\* C20: first match wins.  For each metric the amount returned is that of
\* the first row, in list order, of the winning pass (the identifier pass
\* when a row matches by identifier, else the name pass), and it is null
\* when no eligible row matches.
C20_FirstMatch ==
    mt_pc = "done" => \A k \in MetricKeys : FirstOfWinningPass(k)

\* the part of C20 that pick_is_core_from_rows decides, and CAPEX
C20_FirstMatchIsCore ==
    mt_pc = "done" => \A k \in IsCoreMetrics \cup {"capex"} : FirstOfWinningPass(k)

\* what find_amount does for total equity and operating cash flow: the
\* first row that matches by identifier or by name, in one pass
C20_FirstMatchSinglePass ==
    mt_pc = "done" =>
        \A k \in {"equity", "op_cash_flow"} :
            LET any == IdRows(k, mt_rows) \cup NameRows(k, mt_rows)
            IN  mt_result[k] = IF any = {} THEN None
                               ELSE pick_numeric_amount(mt_rows[Min(any)])

\* two rows match a metric in the same pass and a later row does not count
C20_SamePassReached ==
    /\ mt_pc = "done"
    /\ \E k \in IsCoreMetrics :
          /\ Cardinality(IdRows(k, mt_rows)) >= 2
          /\ \E i \in IdRows(k, mt_rows) :
                pick_numeric_amount(mt_rows[i]) # mt_result[k]

\* the eligible rows whose normalised label holds the keyword
KeywordRows(kw, rws) ==
    { i \in 1..Len(rws) :
        /\ Eligible("sga", rws[i])
        /\ Contains(normalize_account_name(rws[i].account_nm), kw) }

\* the rows that match SG&A directly, by identifier or by a combined keyword
SgaDirectRows(rws) == IdRows("sga", rws) \cup NameRows("sga", rws)

\* SG&A is the sum of the two parts
SgaIsSum ==
    /\ SgaDirectRows(mt_rows) = {}
    /\ KeywordRows(KwPanmaebi, mt_rows) # {}
    /\ KeywordRows(KwGwanribi, mt_rows) # {}

\* C21: the SG&A fallback.  Without a direct match SG&A is the sum of the
\* first selling-expense amount and the first administrative-expense amount
\* when both are found and null when one is missing; with a direct match it
\* is the directly matched amount, never the sum.
C21_SgaFallback ==
    mt_pc = "done" =>
        IF SgaDirectRows(mt_rows) # {}
        THEN mt_result.sga =
                pick_numeric_amount(mt_rows[
                    IF IdRows("sga", mt_rows) # {} THEN Min(IdRows("sga", mt_rows))
                    ELSE Min(NameRows("sga", mt_rows))])
        ELSE IF SgaIsSum
        THEN mt_result.sga =
                Some(Val(pick_numeric_amount(
                            mt_rows[Min(KeywordRows(KwPanmaebi, mt_rows))]))
                     + Val(pick_numeric_amount(
                            mt_rows[Min(KeywordRows(KwGwanribi, mt_rows))])))
        ELSE mt_result.sga = None

\* selling expense 100 and administrative expense 20 on two rows: SG&A 120
C21_Witness ==
    /\ mt_pc = "done"
    /\ SgaIsSum
    /\ Len(mt_rows) = 2
    /\ Min(KeywordRows(KwPanmaebi, mt_rows)) # Min(KeywordRows(KwGwanribi, mt_rows))
    /\ mt_result.sga = Some(120)

\* only the selling expense is found, and SG&A is null
C21_OnePartReached ==
    /\ mt_pc = "done"
    /\ SgaDirectRows(mt_rows) = {}
    /\ KeywordRows(KwPanmaebi, mt_rows) # {}
    /\ KeywordRows(KwGwanribi, mt_rows) = {}
    /\ mt_result.sga = None

\* a direct match behind the two parts: the sum is not used
C21_DirectReached ==
    /\ mt_pc = "done"
    /\ Len(mt_rows) = 3
    /\ SgaDirectRows(mt_rows) = {3}
    /\ KeywordRows(KwPanmaebi, mt_rows) \cap {1, 2} # {}
    /\ KeywordRows(KwGwanribi, mt_rows) \cap {1, 2} # {}
    /\ mt_result.sga = pick_numeric_amount(mt_rows[3])

\* the label holds a cost keyword and neither the selling token nor the
\* administrative token
CostNotExpense(item) ==
    LET nm == normalize_account_name(item.account_nm)
    IN  /\ Contains(nm, KwMaechulWonga) \/ Contains(nm, KwWonga)
        /\ ~Contains(nm, KwPanmae)
        /\ ~Contains(nm, KwGwanri)

\* the label holds the selling token or the administrative token
ExpenseLine(item) ==
    LET nm == normalize_account_name(item.account_nm)
    IN  Contains(nm, KwPanmae) \/ Contains(nm, KwGwanri)

\* C22: the COGS exclusion of the name pass.  When no row matches COGS by
\* identifier, COGS is the amount of the first eligible row whose label holds
\* a cost keyword and neither the selling nor the administrative token, and
\* null when there is no such row: a label with one of the two tokens is
\* never reported as COGS.
C22_CogsExclusion ==
    (mt_pc = "done" /\ IdRows("cogs", mt_rows) = {}) =>
        LET cost == { i \in 1..Len(mt_rows) :
                        Eligible("cogs", mt_rows[i]) /\ CostNotExpense(mt_rows[i]) }
        IN  mt_result.cogs = IF cost = {} THEN None
                             ELSE pick_numeric_amount(mt_rows[Min(cost)])

\* the part of C22 that holds: a label with the generic cost keyword, a
\* selling or administrative token and no cost-of-sales keyword is never
\* the COGS row of the name pass
C22_GenericCostExcluded ==
    (mt_pc = "done" /\ IdRows("cogs", mt_rows) = {} /\ NotNone(mt_result.cogs)) =>
        LET i == Min(NameRows("cogs", mt_rows))
        IN  /\ mt_result.cogs = pick_numeric_amount(mt_rows[i])
            /\ ExpenseLine(mt_rows[i]) =>
                  Contains(normalize_account_name(mt_rows[i].account_nm),
                           KwMaechulWonga)

\* the selling expense line with the cost keyword is passed over
C22_ExcludedReached ==
    /\ mt_pc = "done"
    /\ Len(mt_rows) = 1
    /\ Eligible("cogs", mt_rows[1])
    /\ Contains(normalize_account_name(mt_rows[1].account_nm), KwWonga)
    /\ ExpenseLine(mt_rows[1])
    /\ mt_result.cogs = None

\* C27: the SG&A sum adds the amounts of two distinct rows.  Whenever SG&A
\* is the sum of the two parts, the row that gave the selling expense is not
\* the row that gave the administrative expense.
C27_DistinctRows ==
    (mt_pc = "done" /\ SgaIsSum) =>
        Min(KeywordRows(KwPanmaebi, mt_rows)) # Min(KeywordRows(KwGwanribi, mt_rows))

-----------------------------------------------------------------------------
(* Claims about get_quarterly_metrics (specification SpecQuarter) *)

\* the call has returned its four quarter records
Returned == q_pc = "done"

\* the four cumulative values of metric k are all present
AllCumulative(k) ==
    /\ NotNone(fin.Q1[k])
    /\ NotNone(fin.H1[k])
    /\ NotNone(fin.Q3[k])
    /\ NotNone(fin.FY[k])

\* C1: for every flow metric, when the Q1, H1, 9M and FY cumulative values
\* are all non-null and FY >= 9M, the four quarter values are non-null and
\* add up to the FY cumulative value.
C1_QuartersSumToFY ==
    Returned =>
        \A k \in FlowKeys :
            (AllCumulative(k) /\ Val(fin.FY[k]) >= Val(fin.Q3[k]))
                => /\ \A i \in 1..4 : NotNone(quarters[i][k])
                   /\ Val(quarters[1][k]) + Val(quarters[2][k])
                        + Val(quarters[3][k]) + Val(quarters[4][k]) = Val(fin.FY[k])

\* a year whose revenue grows from report to report, decomposed
C1_Witness ==
    /\ Returned
    /\ AllCumulative("revenue")
    /\ Val(fin.Q1.revenue) < Val(fin.H1.revenue)
    /\ Val(fin.H1.revenue) < Val(fin.Q3.revenue)
    /\ Val(fin.Q3.revenue) <= Val(fin.FY.revenue)
    /\ Val(quarters[4].revenue) # Val(fin.FY.revenue)

\* C2: for every flow metric with FY and 9M cumulative values, Q4 is the
\* FY value itself when FY < 9M, and FY - 9M when FY >= 9M.
C2_Q4Guard ==
    Returned =>
        \A k \in FlowKeys :
            (NotNone(fin.FY[k]) /\ NotNone(fin.Q3[k]))
                => quarters[4][k] =
                      IF Val(fin.FY[k]) < Val(fin.Q3[k])
                      THEN fin.FY[k]
                      ELSE Some(Val(fin.FY[k]) - Val(fin.Q3[k]))

\* a year whose FY revenue is below its 9M revenue: Q4 is the FY revenue
C2_Witness ==
    /\ Returned
    /\ NotNone(fin.FY.revenue) /\ NotNone(fin.Q3.revenue)
    /\ Val(fin.FY.revenue) < Val(fin.Q3.revenue)
    /\ quarters[4].revenue = fin.FY.revenue

\* the quarter q derived from the cumulative values later and prior
QuarterRule(q, later, prior) ==
    q = IF IsNone(later) THEN None
        ELSE IF IsNone(prior) THEN later
        ELSE Some(Val(later) - Val(prior))

\* C3: for every flow metric, Q2 = H1 - Q1 and Q3 = 9M - H1 when both
\* cumulative values are present; the later cumulative value itself when
\* the prior one is null; null when the later one is null.
C3_Q2Q3Rule ==
    Returned =>
        \A k \in FlowKeys :
            /\ QuarterRule(quarters[2][k], fin.H1[k], fin.Q1[k])
            /\ QuarterRule(quarters[3][k], fin.Q3[k], fin.H1[k])

\* Q1 revenue missing and H1 revenue reported: Q2 is the H1 value
C3_Witness ==
    /\ Returned
    /\ IsNone(fin.Q1.revenue)
    /\ NotNone(fin.H1.revenue) /\ Val(fin.H1.revenue) > 0
    /\ quarters[2].revenue = fin.H1.revenue

\* C3, second case reached: a later cumulative value missing after a
\* reported one
C3_NullLaterReached ==
    /\ Returned
    /\ NotNone(fin.Q1.revenue)
    /\ IsNone(fin.H1.revenue)
    /\ NotNone(fin.Q3.revenue)

\* the rows of an answer give the detector a value: the answer is a
\* success with a list in which revenue, operating income or net income
\* is found
Usable(resp) ==
    /\ ~resp.raised
    /\ resp.status = "000"
    /\ resp.list # <<>>
    /\ \E k \in {"revenue", "op_income", "net_income"} :
          NotNone(parse_metrics(resp.list)[k])

\* the i-th combination of the nested order: report period (Q1, H1, 9M,
\* FY), then consolidation (CFS, OFS), then variant (IS, CIS)
NestedOrder(i) ==
    [reprt  |-> IF i <= 4 THEN "11013" ELSE IF i <= 8 THEN "11012"
                ELSE IF i <= 12 THEN "11014" ELSE "11011",
     fs_div |-> IF (i - 1) % 4 < 2 THEN "CFS" ELSE "OFS",
     sj_div |-> IF i % 2 = 1 THEN "IS" ELSE "CIS"]

\* C5: the detector probes the combinations in the nested order and
\* returns the pair of the first probe whose rows are usable; it returns
\* the default (CFS, IS) only after all sixteen probes were unusable.
C5_FirstUsableBasis ==
    /\ \A i \in 1..Len(probes) : probes[i].req = NestedOrder(i)
    /\ q_pc = "detect" =>
          /\ Len(probes) < 16
          /\ \A i \in 1..Len(probes) : ~Usable(probes[i].resp)
    /\ q_pc = "detected" =>
          /\ \A i \in 1..(Len(probes) - 1) : ~Usable(probes[i].resp)
          /\ IF Usable(probes[Len(probes)].resp)
             THEN basis = <<NestedOrder(Len(probes)).fs_div,
                            NestedOrder(Len(probes)).sj_div>>
             ELSE Len(probes) = 16 /\ basis = <<"CFS", "IS">>

\* only the standalone / comprehensive-income combination is usable, the
\* consolidated one answered with rows that hold no metric: (OFS, CIS)
C5_Witness ==
    /\ q_pc = "detected"
    /\ Len(probes) = 4
    /\ get_fin_data(probes[2].resp) # <<>>
    /\ ~Usable(probes[2].resp)
    /\ Usable(probes[4].resp)
    /\ basis = <<"OFS", "CIS">>

\* C5, the default: sixteen unusable probes
C5_DefaultReached ==
    /\ q_pc = "detected"
    /\ Len(probes) = 16
    /\ ~Usable(probes[16].resp)
    /\ basis = <<"CFS", "IS">>

\* the requests of fetch_report_metrics for one report, under a basis
UnderBasis(r, b) ==
    /\ r.fs_div = b[1]
    /\ r.sj_div \in {b[2], "BS", "CF"}

\* no report is fetched while the detector runs; every report request is
\* made under the detected pair; when the fetching is over each of the
\* four reports was asked for its income statement under that pair
OneBasis ==
    /\ q_pc \in {"idle", "detect"} => (fetched = {} /\ basis = <<>>)
    /\ q_pc \notin {"idle", "detect"} => Len(basis) = 2
    /\ \A r \in fetched : UnderBasis(r, basis)
    /\ q_pc \in {"prev_eq", "done"} =>
          \A q \in {"Q1", "H1", "Q3", "FY"} :
             \A sj \in {basis[2], "BS", "CF"} :
                [reprt |-> REPRT_CODES[q], fs_div |-> basis[1], sj_div |-> sj]
                    \in fetched

\* C6: within one call, detection ends with one pair before the first
\* report is fetched, the pair never changes afterwards, and all four
\* reports are fetched under it.
C6_SingleBasis == [](OneBasis) /\ [][basis # <<>> => basis' = basis]_vars

\* a call that fetched its twelve statements on the standalone basis
C6_Witness ==
    /\ Returned
    /\ basis = <<"OFS", "CIS">>
    /\ Cardinality(fetched) = 12

\* the margin rule of a record
MarginRule(r) ==
    IF IsNone(r.revenue) \/ r.revenue = Some(0) \/ IsNone(r.op_income)
    THEN IsNone(r.op_margin)
    ELSE /\ NotNone(r.op_margin)
         /\ Val(r.op_margin) = <<Val(r.op_income), Val(r.revenue)>>

\* C7: in every record of parse_metrics (the cumulative records fin) and in
\* every quarter record, the operating margin is null when revenue is null
\* or zero or operating income is null, and operating income / revenue
\* otherwise.
C7_MarginRule ==
    /\ \A q \in DOMAIN fin : MarginRule(fin[q])
    /\ Returned => \A i \in 1..4 : MarginRule(quarters[i])

\* a quarter with zero revenue and an operating income, next to a quarter
\* with a margin; a cumulative record with zero revenue
C7_Witness ==
    /\ Returned
    /\ \E i \in 1..4 : /\ quarters[i].revenue = Some(0)
                       /\ NotNone(quarters[i].op_income)
                       /\ IsNone(quarters[i].op_margin)
    /\ \E i \in 1..4 : NotNone(quarters[i].op_margin)
    /\ \E q \in DOMAIN fin : fin[q].revenue = Some(0) /\ NotNone(fin[q].op_income)

\* C13: equity is not decomposed.  The total equity of Q1, Q2, Q3 and Q4 is
\* the total equity of the Q1, H1, 9M and FY report, whatever the equity of
\* the other reports.
C13_EquityNotDecomposed ==
    Returned =>
        \A i \in 1..4 : quarters[i].equity = fin[ReprtKeys[i]].equity

\* a year whose equity differs from report to report and falls at the end:
\* neither a difference nor the Q4 guard shows in the quarters
C13_Witness ==
    /\ Returned
    /\ \A q \in DOMAIN fin : NotNone(fin[q].equity)
    /\ Val(fin.Q1.equity) # 0
    /\ Val(fin.H1.equity) # Val(fin.Q1.equity)
    /\ Val(fin.FY.equity) < Val(fin.Q3.equity)
    /\ quarters[2].equity = fin.H1.equity
    /\ quarters[4].equity = fin.FY.equity

\* the equity at the start and at the end of quarter i: the prior fiscal
\* year's closing equity for Q1, the previous quarter's equity after it
StartEquity(i) == IF i = 1 THEN prev_year_eq ELSE quarters[i - 1].equity

EndEquity(i) == quarters[i].equity

UsableEquity(e) == NotNone(e) /\ Val(e) # 0

\* C14: the quarterly ROE.  With a net income and two usable equity
\* endpoints (whose average is not zero), the ROE of the quarter is
\* (net income x 4) / ((start equity + end equity) / 2).
C14_QuarterlyRoe ==
    Returned =>
        \A i \in 1..4 :
            ( /\ NotNone(quarters[i].net_income)
              /\ UsableEquity(StartEquity(i))
              /\ UsableEquity(EndEquity(i))
              /\ Val(StartEquity(i)) + Val(EndEquity(i)) # 0 )
            => /\ NotNone(quarters[i].roe)
               /\ SameRatio(Val(quarters[i].roe),
                            <<Val(quarters[i].net_income) * 4 * 2,
                              Val(StartEquity(i)) + Val(EndEquity(i))>>)

\* a first quarter whose start equity, from the prior year's report,
\* differs from its end equity, and a second quarter with a net income
C14_Witness ==
    /\ Returned
    /\ UsableEquity(prev_year_eq) /\ UsableEquity(quarters[1].equity)
    /\ UsableEquity(quarters[2].equity)
    /\ Val(prev_year_eq) # Val(quarters[1].equity)
    /\ Val(quarters[1].equity) # Val(quarters[2].equity)
    /\ NotNone(quarters[1].net_income) /\ Val(quarters[1].net_income) # 0
    /\ NotNone(quarters[2].net_income) /\ Val(quarters[2].net_income) # 0
    /\ NotNone(quarters[1].roe)
    /\ NotNone(quarters[2].roe)

\* C15: the quarterly ROE is null when the start or the end equity is null
\* or zero, when net income is null and when the two endpoints average to
\* zero; a ROE that is not null has a divisor that is not zero.
C15_QuarterlyRoeNull ==
    Returned =>
        \A i \in 1..4 :
            /\ ( \/ IsNone(quarters[i].net_income)
                 \/ ~UsableEquity(StartEquity(i))
                 \/ ~UsableEquity(EndEquity(i))
                 \/ Val(StartEquity(i)) + Val(EndEquity(i)) = 0 )
               => IsNone(quarters[i].roe)
            /\ NotNone(quarters[i].roe) => Val(quarters[i].roe)[2] # 0

\* endpoints that cancel out: no ROE for the quarter, despite a net income
C15_Witness ==
    /\ Returned
    /\ \E i \in 1..4 :
          /\ NotNone(quarters[i].net_income)
          /\ UsableEquity(StartEquity(i)) /\ UsableEquity(EndEquity(i))
          /\ Val(StartEquity(i)) + Val(EndEquity(i)) = 0
          /\ IsNone(quarters[i].roe)

\* C15, other cases reached: a zero end equity and a missing start equity
C15_ZeroEquityReached ==
    /\ Returned
    /\ \E i \in 2..4 : /\ NotNone(quarters[i].net_income)
                       /\ EndEquity(i) = Some(0)
                       /\ UsableEquity(StartEquity(i))
    /\ IsNone(prev_year_eq)

\* the step the program takes when the request it makes is answered with
\* zero rows
EmptyFilingStep ==
    IF q_pc = "detect" THEN DetectStep(<<>>)
    ELSE IF q_pc = "prev_eq" THEN EquityStep(<<>>)
    ELSE FetchStep(<<>>)

\* four quarter records, each with the eight metrics and the two ratios
FourRecords ==
    /\ Len(quarters) = 4
    /\ \A i \in 1..4 : DOMAIN quarters[i] = MetricKeys \cup {"op_margin", "roe"}

C19_PartialReached ==
    /\ Returned
    /\ corp_code = "A"
    /\ failures = 1
    /\ \E i \in 1..4 : NotNone(quarters[i].revenue)

\* the request the fetch is about to make
NextRequest ==
    ReportRequest(REPRT_CODES[ReprtKeys[FetchSnap]], basis[1], basis[2], FetchPart)

\* the number of requests the fetch has made
RequestsMade ==
    IF q_pc = "fetch" THEN 3 * (snap - 1) + (part - 1)
    ELSE IF q_pc \in {"prev_eq", "done"} THEN 12
    ELSE 0

\* the step leaves the request it has made behind: the detector goes to its
\* next combination or returns, the fetch to its next request, the equity
\* lookup to the quarter records
MovesOn ==
    IF q_pc = "detect"
    THEN \/ q_pc' = "detect" /\ Len(probes') = Len(probes) + 1
         \/ q_pc' = "detected"
    ELSE IF q_pc = "prev_eq" THEN q_pc' = "done"
    ELSE \/ q_pc' = "fetch" /\ 3 * (snap' - 1) + part' = 3 * (FetchSnap - 1) + FetchPart + 1
         \/ q_pc' = "prev_eq" /\ FetchSnap = 4 /\ FetchPart = 3

\* C23: no retries.  The detector asks each of its combinations at most once,
\* the fetch never asks for a (report, basis, statement) it has asked for,
\* every one of its requests being a new one, and a step whose request has
\* failed moves on to the next request.
C23_NoRetries ==
    /\ [](\A i, j \in 1..Len(probes) : i # j => probes[i].req # probes[j].req)
    /\ [](q_pc \in {"detected", "fetch"} => NextRequest \notin fetched)
    /\ [](Cardinality(fetched) = RequestsMade)
    /\ [][failures' > failures => MovesOn]_vars

\* a request has failed and the fetch has gone through its twelve requests
C23_Witness ==
    /\ q_pc = "prev_eq"
    /\ corp_code = "B"
    /\ failures = 1
    /\ Cardinality(fetched) = 12

\* the request of the detector's first combination has failed and the
\* detector is at its second
C23_DetectorReached ==
    /\ q_pc = "detect"
    /\ Len(probes) = 1
    /\ probes[1].resp \in FailedResponses

\* the cumulative values of metric k, in period order
Cumulative(k) == <<fin.Q1[k], fin.H1[k], fin.Q3[k], fin.FY[k]>>

\* the non-null cumulative values of metric k are non-negative and do not
\* decrease from period to period
NonDecreasing(k) ==
    LET cum == Cumulative(k)
    IN  /\ \A i \in 1..4 : NotNone(cum[i]) => Val(cum[i]) >= 0
        /\ \A i, j \in 1..4 :
              (i < j /\ NotNone(cum[i]) /\ NotNone(cum[j])) => Val(cum[i]) <= Val(cum[j])

\* the sum of the non-null quarter values of metric k
QuarterSum(k) ==
    LET v(i) == IF NotNone(quarters[i][k]) THEN Val(quarters[i][k]) ELSE 0
    IN  v(1) + v(2) + v(3) + v(4)

\* C25: no double counting.  For a flow metric whose FY value is there and
\* whose non-null cumulative values are non-negative and non-decreasing,
\* the non-null quarter values sum to at most the FY value, whichever of the
\* Q1, H1 and 9M snapshots are missing.
C25_NoDoubleCounting ==
    Returned =>
        \A k \in FlowKeys :
            (NotNone(fin.FY[k]) /\ NonDecreasing(k)) => QuarterSum(k) <= Val(fin.FY[k])

\* the part of C25 that holds: with no snapshot missing the quarters of
\* such a metric sum to the FY value
C25_AllSnapshots ==
    Returned =>
        \A k \in FlowKeys :
            (AllCumulative(k) /\ NonDecreasing(k)) => QuarterSum(k) = Val(fin.FY[k])

\* C26: for every flow metric whose FY cumulative value is non-null and not
\* negative, the Q4 value is non-null and not negative, whatever the 9M
\* value is, null included.
C26_Q4NonNegative ==
    Returned =>
        \A k \in FlowKeys :
            (NotNone(fin.FY[k]) /\ Val(fin.FY[k]) >= 0)
                => NotNone(quarters[4][k]) /\ Val(quarters[4][k]) >= 0

\* a year with a missing 9M snapshot: Q4 is the FY revenue
C26_Witness ==
    /\ Returned
    /\ NotNone(fin.FY.revenue) /\ Val(fin.FY.revenue) > 0
    /\ IsNone(fin.Q3.revenue)
    /\ quarters[4].revenue = fin.FY.revenue

\* a year whose 9M net income is a loss and whose FY net income is a
\* profit: Q4 is above the FY value
C26_LossReached ==
    /\ Returned
    /\ NotNone(fin.FY.net_income) /\ NotNone(fin.Q3.net_income)
    /\ Val(fin.Q3.net_income) < 0 /\ Val(fin.FY.net_income) >= 0
    /\ Val(quarters[4].net_income) > Val(fin.FY.net_income)

\* a year whose FY revenue is below its 9M revenue, and Q4 is not negative
C26_GuardReached ==
    /\ Returned
    /\ NotNone(fin.FY.revenue) /\ NotNone(fin.Q3.revenue)
    /\ 0 <= Val(fin.FY.revenue) /\ Val(fin.FY.revenue) < Val(fin.Q3.revenue)
    /\ Val(quarters[4].revenue) >= 0

-----------------------------------------------------------------------------
(* Claims about publish_post (specification SpecPublish) *)

\* the writes to the posts of the site the call has issued
PostWrites == SelectSeq(pub_writes, LAMBDA w : w.path[1] = "posts")

\* the call is over: it has returned or raised
PubOver == pub_pc \in {"done", "raised"}

\* the one write the claim allows: the update of the post found, else a
\* create
AllowedWrite ==
    IF NotNone(pub_existing)
    THEN [method |-> "PATCH", path |-> <<"posts", Val(pub_existing)>>]
    ELSE [method |-> "POST", path |-> <<"posts">>]

\* the posts of the site's answers whose title contains the company name
TitledPosts ==
    { p \in DraftPosts \cup PublishedPosts :
        /\ p \in { pub_site.draft[i] : i \in 1..Len(pub_site.draft) }
                    \cup { pub_site.publish[j] : j \in 1..Len(pub_site.publish) }
        /\ Contains(p.title, pub_company) }

\* C24 as stated: every call issues exactly one write to the posts, the
\* update of the post find_existing_post found (a PATCH to its id) when it
\* found one, a create (a POST) when it found none.
C24_ExactlyOneWrite ==
    PubOver => PostWrites = <<AllowedWrite>>

\* C24, amended: no call issues more than one write to the posts; a call
\* that returns has issued exactly one and a call still preparing category
\* and tags, or raised there, none; the write is the update of the post
\* find_existing_post found (a post of the answers whose title contains the
\* company name), and a create only when it found none: no such post in the
\* answers, or a search that failed.
C24_AtMostOneWrite ==
    /\ Len(PostWrites) <= 1
    /\ pub_pc = "done" => Len(PostWrites) = 1
    /\ pub_pc \notin {"done", "raised"} => PostWrites = <<>>
    /\ PostWrites # <<>> => PostWrites = <<AllowedWrite>>
    /\ NotNone(pub_existing) => \E p \in TitledPosts : p.id = Val(pub_existing)
    /\ (PostWrites # <<>> /\ PostWrites[1].method = "POST")
          => (TitledPosts = {} \/ \E i \in 1..Len(pub_lookups) : pub_lookups[i] = "error")

\* a published post of the company is found after the drafts, and updated
C24_Witness ==
    /\ pub_pc = "done"
    /\ pub_existing = Some(3)
    /\ pub_lookups = <<"ok", "ok">>
    /\ PostWrites = << [method |-> "PATCH", path |-> <<"posts", 3>>] >>

\* no post of the company, and one is created
C24_CreateReached ==
    /\ pub_pc = "done"
    /\ TitledPosts = {}
    /\ PostWrites = << [method |-> "POST", path |-> <<"posts">>] >>

\* the search fails while the site holds a post of the company, and a
\* second post is created
C24_FailedSearchReached ==
    /\ pub_pc = "done"
    /\ TitledPosts # {}
    /\ pub_lookups = <<"error">>
    /\ PostWrites = << [method |-> "POST", path |-> <<"posts">>] >>

-----------------------------------------------------------------------------
(* Claims about call_openai_json (specification SpecOpenAI) *)

\* the i-th request of the fixed order: the primary model with the JSON
\* format, the primary model with the text format, the fallback model with
\* the JSON format, the fallback model with the text format, three of each
FixedOrder(i) ==
    IF i <= 3 THEN [model |-> "gpt-5-mini", use_json_format |-> TRUE]
    ELSE IF i <= 6 THEN [model |-> "gpt-5-mini", use_json_format |-> FALSE]
    ELSE IF i <= 9 THEN [model |-> "gpt-5-nano", use_json_format |-> TRUE]
    ELSE [model |-> "gpt-5-nano", use_json_format |-> FALSE]

\* the answer holds a non-empty JSON object
NonEmptyObject(response) ==
    ~response.raised /\ parse_json_from_chat_response(response) # 0

\* C28: call_openai_json makes at most 12 completion requests, in the fixed
\* order; the first answer that parses to a non-empty object is returned
\* and no request follows it; when the twelfth attempt has failed too, the
\* last error is raised.
C28_AtMostTwelve ==
    /\ [](/\ Len(ai_requests) <= 12
          /\ \A i \in 1..Len(ai_requests) : ai_requests[i] = FixedOrder(i))
    /\ [][ai_requests' # ai_requests =>
            /\ ai_pc = "call"
            /\ Len(ai_requests') = Len(ai_requests) + 1
            /\ IF NonEmptyObject(ai_response')
               THEN /\ ai_pc' = "done"
                    /\ ai_result' = Some(parse_json_from_chat_response(ai_response'))
               ELSE IF Len(ai_requests') = 12
               THEN /\ ai_pc' = "raised"
                    /\ NotNone(last_err')
                    /\ ai_result' = Raise(Val(last_err'))
                    /\ Val(last_err') = IF ai_response'.raised THEN "APIError"
                                        ELSE "ValueError"
               ELSE ai_pc' = "call" /\ ai_result' = None]_vars

\* the fallback model answers the last attempt with an object in prose,
\* after eleven failures
C28_Witness ==
    /\ ai_pc = "done"
    /\ Len(ai_requests) = 12
    /\ ai_response.choices = << <<"x", "{", "k:1", "}", "x">> >>
    /\ ai_result = Some(1)

\* the twelfth answer is an empty object, and the error of an empty answer
\* is raised
C28_RaisedReached ==
    /\ ai_pc = "raised"
    /\ Len(ai_requests) = 12
    /\ ai_response.choices = << <<"{", "}">> >>
    /\ ai_result = Raise("ValueError")

\* the first answer is an object, and it is the only request
C28_FirstReached ==
    /\ ai_pc = "done"
    /\ Len(ai_requests) = 1
    /\ ai_result = Some(1)

-----------------------------------------------------------------------------
(* Claims about run_all_pending (specification SpecRun) *)

\* the spreadsheets counted under the key
CountedAs(key) ==
    Cardinality({ i \in 1..Len(handled) : handled[i].counted = key })

\* C29: the accounting of the summary.  Whenever run_all_pending has
\* returned, in the target mode and in the scan mode, processed + skipped +
\* failed = found.
C29_SummaryAccounting ==
    run_pc = "returned" =>
        summary.processed + summary.skipped + summary.failed = summary.found

\* the part of C29 that holds: in the scan mode, and in the target mode
\* when the spreadsheet could be opened, the three counts add up to found,
\* each spreadsheet handled being counted once
C29_AccountingWhenOpened ==
    (run_pc = "returned"
        /\ (target_id = "" \/ summary.found = 1))
        => /\ summary.processed + summary.skipped + summary.failed = summary.found
           /\ summary.found = Len(handled)
           /\ \A key \in {"processed", "skipped", "failed"} : summary[key] = CountedAs(key)

\* C30: run_analysis is never invoked on a spreadsheet that is already
\* analysed unless FORCE_REANALYZE is set; in the scan mode the spreadsheets
\* handled are the deduplicated ones, each once and in order, no two of them
\* with the same id or name; a spreadsheet whose handling raised is counted
\* as failed and the scan goes on to the next.
C30_SkipAndContinue ==
    /\ [](\A i \in 1..Len(handled) :
             /\ (handled[i].run_analysis # "no" /\ handled[i].analyzed) => force_reanalyze
             /\ handled[i].run_analysis \in {"raise", "false"} => handled[i].counted = "failed")
    /\ [](target_id = "" =>
             /\ Len(handled) <= Len(files)
             /\ \A i \in 1..Len(handled) : handled[i].id = files[i].id
             /\ \A i, j \in 1..Len(files) :
                   i # j => files[i].id # files[j].id /\ files[i].name # files[j].name
             /\ (run_pc = "returned" => Len(handled) = Len(files))
             /\ (run_pc = "loop" => Len(handled) < Len(files)))
    /\ [][(run_pc = "loop" /\ handled' # handled) =>
             /\ Len(handled') = Len(handled) + 1
             /\ summary'.failed + summary'.processed + summary'.skipped
                   = summary.failed + summary.processed + summary.skipped + 1
             /\ handled'[Len(handled')].counted = "failed"
                   => summary'.failed = summary.failed + 1]_vars

\* a scan of two spreadsheets: the first raises in run_analysis, the second
\* is analysed although it was analysed before, FORCE_REANALYZE being set
C30_Witness ==
    /\ run_pc = "returned"
    /\ target_id = ""
    /\ force_reanalyze
    /\ Len(files) = 2
    /\ Len(handled) = 2
    /\ handled[1].run_analysis = "raise"
    /\ handled[2].analyzed /\ handled[2].run_analysis = "true"
    /\ summary = [found |-> 2, processed |-> 1, skipped |-> 0, failed |-> 1]

\* an analysed spreadsheet is passed over
C30_SkippedReached ==
    /\ run_pc = "returned"
    /\ ~force_reanalyze
    /\ Len(handled) = 1
    /\ handled[1].analyzed /\ handled[1].run_analysis = "no"
    /\ summary.skipped = 1

====
